---- MODULE Spec2Model ----
(***************************************************************************)
(* The CloudFormation template deployment engine of                        *)
(* src/localstack/services/cloudformation/engine/template_deployer.py:     *)
(* the entry points of TemplateDeployer (deploy_stack, apply_change_set,   *)
(* update_stack, delete_stack), the change planner (construct_changes,     *)
(* apply_changes) and the deployment loop run by the worker thread         *)
(* (apply_changes_in_loop._run, do_apply_changes_in_loop,                  *)
(* prepare_should_deploy_change, apply_change, update_resource_details).   *)
(*                                                                         *)
(* One stack is modelled.  In a scenario its template holds up to three    *)
(* resources with the logical ids 1, 2, 3, in this key order.  What a      *)
(* template says about a logical id (type, references, DependsOn) and how  *)
(* the backing service answers for it are fixed for a behaviour; which     *)
(* resources a template holds, its conditions and its property values      *)
(* change from run to run.  In a chain the template holds up to MaxChain   *)
(* resources, each naming the next or the previous one.                    *)
(***************************************************************************)
EXTENDS Integers, Sequences, FiniteSets, TLC

\* ------------------------------------------------------------------ bounds

\* Logical resource ids of a scenario; template["Resources"] holds its keys in
\* ascending order.
ResourceIds == {1, 2, 3}

\* A scenario departs from the plain one (every resource of a registered,
\* updatable type, no reference, every condition true, every service call
\* succeeding, every template holding every resource unchanged) in at most this
\* many places.
MaxDeviations == 2

\* Entry points called on the stack in one behaviour.
MaxRuns == 2

\* Resources of the longest chain template, in which each resource names its
\* neighbour.
MaxChain == 31

\* ------------------------------------------------------- program constants

max_iters == 30
max_cycle == 10

ACTION_CREATE == "create"
ACTION_DELETE == "delete"
ACTION_UPDATE == "update"

NoStatus == "NONE"
NoId == 0

InProgressStatuses == {"CREATE_IN_PROGRESS", "UPDATE_IN_PROGRESS", "DELETE_IN_PROGRESS"}
CompleteStatuses == {"CREATE_COMPLETE", "UPDATE_COMPLETE", "DELETE_COMPLETE"}
FailedStatuses == {"CREATE_FAILED", "UPDATE_FAILED", "DELETE_FAILED"}

InProgress(action) == CASE action = "CREATE" -> "CREATE_IN_PROGRESS"
                        [] action = "UPDATE" -> "UPDATE_IN_PROGRESS"
                        [] action = "DELETE" -> "DELETE_IN_PROGRESS"
Complete(action) == CASE action = "CREATE" -> "CREATE_COMPLETE"
                      [] action = "UPDATE" -> "UPDATE_COMPLETE"
                      [] action = "DELETE" -> "DELETE_COMPLETE"
Failed(action) == CASE action = "CREATE" -> "CREATE_FAILED"
                    [] action = "UPDATE" -> "UPDATE_FAILED"
                    [] action = "DELETE" -> "DELETE_FAILED"

\* ------------------------------------------------------------------- state

VARIABLES
    \* what the templates say about a logical id, and the backing service
    rtype,          \* "Known": the registry holds a provider; "Unknown": none;
                    \* "Parameter": the reserved type of a stack parameter
    updatable,      \* the provider's is_updatable()
    refs,           \* ids named by {"Ref": X} / {"Fn::GetAtt": [X, ..]} in the original value
    dependsOn,      \* the resource's DependsOn
    outcome,        \* how the service answers an action on the resource
    callable,       \* the provider's descriptor holds a callable, not a method name
    imports,        \* "missing" / "present": a property of the resource is
                    \* {"Fn::ImportValue": name} and the exports map lacks / holds
                    \* the name; "none": no property imports a value
    exportName,     \* id named by {"Ref": X} in the Export Name of output r; NoId
                    \* for an output without Export or with a literal name
    \* the stack
    status,         \* stack.status
    template,       \* keys of stack.template["Resources"]
    cond,           \* value of each resource's Condition (stack.conditions)
    props,          \* stack.resources[r]["Properties"], abstracted to a version
    resStatus,      \* stack.resource_states[r]["ResourceStatus"]
    physId,         \* stack.resources[r]["PhysicalResourceId"]
    outputs,        \* keys of stack.outputs; output r has Value {"Ref": r}
    resolvedOutputs,\* stack.resolved_outputs: OutputValue per output
    csStatus,       \* change_set.metadata["Status"]
    csExecStatus,   \* change_set.metadata["ExecutionStatus"]
    \* the backing service
    deployed,       \* id the service holds for the resource, NoId when absent
    calls,          \* service calls of the current run: <<resource, action>>
    warned,         \* resources the current run logged a missing provider for
    \* the running entry point and its worker thread
    pc,             \* "idle", "loop", "raising", "delete"
    entry,          \* entry point of the current run
    action,         \* stack action of the current run: CREATE, UPDATE, DELETE
    isChangeSet,    \* isinstance(new_stack, StackChangeSet)
    newTemplate,    \* keys of new_stack.template["Resources"]
    changes,        \* the pending change list of do_apply_changes_in_loop
    changesDone,    \* changes_done
    iter,           \* i of "for i in range(max_iters)"
    j,              \* j of "while j < len(changes)", 1-based
    updated,        \* updated
    cycle,          \* iteration_cycle of delete_stack
    delRes,         \* keys of the resources dict delete_stack retains
    raised,         \* exception the last entry point raised to its caller
    workerExc,      \* exception in flight in the worker thread
    loopResult,     \* how do_apply_changes_in_loop ended in the current run
    loggedFinal,    \* resources whose delete failure the last cycle logged
    runs,           \* entry points called so far
    devUsed,        \* deviations chosen by the entry points so far
    \* a call of construct_changes on its own
    planned,        \* its arguments and the changes it returned
    \* a call of apply_parameter_changes on its own
    paramRun,       \* its arguments and the parameters it left in the stack
    mergeRun,       \* merge_properties called on its own: the old and the new
                    \* resource, their template_original entries, and the result
    r53Run,         \* Route53RecordSetProvider.create called on its own: the
                    \* desired state, what route53 answers, the calls and the result
    invRun,         \* invoke_function called on its own: its arguments, what the
                    \* service function does, the calls made and how it ended
    depRun,         \* get_resource_dependencies called on its own over a template
                    \* whose logical ids are strings: its arguments and its result
    \* a caller thread that does not wait for the worker thread
    callerPc        \* "idle", "delete": it runs delete_stack

templateVars == <<rtype, updatable, refs, dependsOn, outcome, callable, imports,
                  exportName>>
stackVars == <<status, template, cond, props, resStatus, physId, outputs,
               resolvedOutputs, csStatus, csExecStatus>>
serviceVars == <<deployed, calls, warned>>
loopVars == <<changes, changesDone, iter, j, updated>>
deleteVars == <<cycle, delRes, loggedFinal>>
runVars == <<pc, entry, action, isChangeSet, newTemplate, raised, workerExc, loopResult,
             runs, devUsed>>
plannerVars == <<planned, paramRun, depRun, invRun, mergeRun, r53Run>>
callerVars == <<callerPc>>
vars == <<templateVars, stackVars, serviceVars, loopVars, deleteVars, runVars,
          plannerVars, callerVars>>


\* --------------------------------------------------------------- scenarios

\* The ways a scenario may depart from the plain one, for one logical id.
StaticDeviations ==
    {<<"ref", s, t>> : s \in ResourceIds, t \in ResourceIds}
    \cup {<<"dep", s, t>> : s \in ResourceIds, t \in ResourceIds}
    \cup {<<k, s, s>> : k \in {"unknown", "parameter", "fixed", "dnys", "error",
                                "notfound", "callable"},
                        s \in ResourceIds}

RECURSIVE DeviationSets(_)
DeviationSets(k) ==
    IF k = 0 THEN {{}}
    ELSE LET smaller == DeviationSets(k - 1)
         IN  smaller \cup {d \cup {e} : d \in smaller, e \in StaticDeviations}

\* A template is well formed when no resource names itself and an outcome is
\* chosen once per resource.  A stack parameter holds a literal value: its
\* definition names no resource, and it has no provider to choose for.
WellFormed(dv) ==
    /\ \A d \in dv : d[1] \in {"ref", "dep"} => d[2] # d[3]
    /\ \A s \in ResourceIds :
          <<"parameter", s, s>> \in dv => \A d \in dv : d[2] = s => d[1] = "parameter"
    /\ \A s \in ResourceIds :
          Cardinality({k \in {"dnys", "error", "notfound"} : <<k, s, s>> \in dv}) <= 1

\* Every id a resource of the template names is a resource of the template.
Closed(T) == \A s \in T : refs[s] \cup dependsOn[s] \subseteq T

\* The logical ids of the behaviour's templates.
Ids == DOMAIN rtype

\* The ids of S in the key order of the template.
SeqOf(S) == SelectSeq([k \in 1..Cardinality(Ids) |-> k], LAMBDA r : r \in S)

\* The subsets of S with at most k elements.
RECURSIVE SubsetsUpTo(_, _)
SubsetsUpTo(S, k) ==
    IF k <= 0 THEN {{}}
    ELSE LET smaller == SubsetsUpTo(S, k - 1)
         IN  smaller \cup {T \cup {x} : T \in smaller, x \in S}

\* --------------------------------------------------------- registry, state

\* get_deployment_config: the provider's deploy templates, None for a type
\* the registry does not hold.
get_deployment_config(r) == rtype[r] = "Known"

\* TemplateDeployer.is_deployable_resource
is_deployable_resource(r) == get_deployment_config(r)

\* The Properties of a stack parameter, which hold its Value.
ParameterProps == 1

\* A log that knows no reserved type.
log_not_available_message_NoReserved(r) == ~get_deployment_config(r)

\* The condition under which the engine logs that a type has no provider:
\* the registry holds none and the type is not the reserved one.
log_not_available_message(r) == ~get_deployment_config(r) /\ rtype[r] # "Parameter"

\* retrieve_resource_details: the state the provider fetches from the
\* service, None when the service does not hold it; the Properties of a
\* stack parameter; None (with a log) for another type without a provider.
retrieve_resource_details(r) ==
    IF rtype[r] = "Known" THEN deployed[r]
    ELSE IF rtype[r] = "Parameter" THEN ParameterProps
    ELSE NoId

\* TemplateDeployer.is_deployed
is_deployed(r) == retrieve_resource_details(r) # NoId

\* TemplateDeployer.is_updateable
is_updateable(r) ==
    IF ~is_deployable_resource(r) \/ ~is_deployed(r) THEN FALSE ELSE updatable[r]

\* TemplateDeployer.get_resource_dependencies: the other ids of the original
\* template that the resource's dumped value names, and its DependsOn.
get_resource_dependencies(r) ==
    {o \in template : o # r /\ (o \in refs[r] \/ o \in dependsOn[r])}

\* A dependency check that counts every deployable dependency as unsatisfied,
\* deployed or not.
get_unsatisfied_dependencies_Always(r) ==
    {d \in get_resource_dependencies(r) : is_deployable_resource(d)}

\* A dependency check that passes over the dependencies whose Condition is
\* false.
get_unsatisfied_dependencies_Conditional(r) ==
    {d \in get_resource_dependencies(r) :
        is_deployable_resource(d) /\ ~is_deployed(d) /\ cond[d]}

\* TemplateDeployer.get_unsatisfied_dependencies_for_resources
get_unsatisfied_dependencies(r) ==
    {d \in get_resource_dependencies(r) : is_deployable_resource(d) /\ ~is_deployed(d)}

\* TemplateDeployer.all_resource_dependencies_satisfied
all_resource_dependencies_satisfied(r) == get_unsatisfied_dependencies(r) = {}

\* evaluate_resource_condition
evaluate_resource_condition(r) == cond[r]

\* GenericBaseModel.get_ref: the physical id of the deployed resource, read
\* from the resource states ids.
get_ref(r, ids) == ids[r]

\* get_ref_from_model: None (with an error log) for a type without model class.
get_ref_from_model(r, ids) == IF rtype[r] = "Known" THEN get_ref(r, ids) ELSE NoId

\* What resolving a value ends with when resolving its parts ended with the
\* outcomes inner: the exception one of them raised, else the outcome last.
FirstRaised(inner, last) ==
    IF "error" \in inner THEN "error"
    ELSE IF "dnys" \in inner THEN "dnys"
    ELSE last

\* resolve_ref with attribute "Ref" against the resources tmpl with states ids,
\* as an outcome.  An id that is no resource of the stack raises ("error");
\* the Ref of a stack parameter is the Value of its Properties.
\* Otherwise the definition of the target is resolved first, which resolves
\* the targets it names in turn; a definition that is already being resolved
\* is returned as it is (the recursion guard of resolve_refs_recursively).
\* Then the Ref is get_ref_from_model's, and _resolve_refs_recursively raises
\* DependencyNotYetSatisfied ("dnys") for None.
RECURSIVE resolve_ref(_, _, _, _)
resolve_ref(t, resolving, tmpl, ids) ==
    IF t \notin tmpl THEN "error"
    ELSE IF rtype[t] = "Parameter" THEN "ok"
    ELSE FirstRaised(
             IF t \in resolving THEN {}
             ELSE {resolve_ref(u, resolving \cup {t}, tmpl, ids) : u \in refs[t]},
             IF get_ref_from_model(t, ids) = NoId THEN "dnys" ELSE "ok")

\* The value of an export the exports map holds.
ExportValue == 1

\* _resolve_refs_recursively, branch "importvalue": the Value of the export,
\* None (with a log) when the exports map lacks the name or holds no Value.
import_value(r) == IF imports[r] = "present" THEN ExportValue ELSE NoId

\* An importvalue branch that raises DependencyNotYetSatisfied for a name
\* the exports map lacks.
resolve_import_Blocks(r) == IF imports[r] = "missing" THEN "dnys" ELSE "ok"

\* The importvalue branch as an outcome: it returns, whatever the value.
resolve_import(r) == "ok"

\* resolve_refs_recursively over the definition of a resource: the first Ref /
\* GetAtt that does not resolve raises; an Fn::ImportValue does not.
resolve_refs_recursively(r) ==
    FirstRaised({resolve_ref(t, {r}, template, physId) : t \in refs[r]}
                    \cup {resolve_import(r)},
                "ok")

\* get_action_name_for_resource_change
get_action_name_for_resource_change(a) ==
    CASE a = "Add" -> "CREATE"
      [] a = "Modify" -> "UPDATE"
      [] a = "Remove" -> "DELETE"

\* -------------------------------------------------------------------- Init

\* A scenario: the static choices, the first template and its conditions.
ScenarioInit ==
    /\ \E dv \in DeviationSets(MaxDeviations), absent \in SUBSET ResourceIds,
          cf \in SUBSET ResourceIds :
        /\ WellFormed(dv)
        /\ Cardinality(dv) + Cardinality(absent) + Cardinality(cf) <= MaxDeviations
        /\ cf \cap absent = {}
        /\ rtype = [r \in ResourceIds |->
                      IF <<"parameter", r, r>> \in dv THEN "Parameter"
                      ELSE IF <<"unknown", r, r>> \in dv THEN "Unknown"
                      ELSE "Known"]
        /\ updatable = [r \in ResourceIds |-> <<"fixed", r, r>> \notin dv]
        /\ refs = [r \in ResourceIds |-> {t \in ResourceIds : <<"ref", r, t>> \in dv}]
        /\ dependsOn = [r \in ResourceIds |-> {t \in ResourceIds : <<"dep", r, t>> \in dv}]
        /\ outcome = [r \in ResourceIds |->
                        IF <<"dnys", r, r>> \in dv THEN "dnys"
                        ELSE IF <<"error", r, r>> \in dv THEN "error"
                        ELSE IF <<"notfound", r, r>> \in dv THEN "notfound"
                        ELSE "ok"]
        /\ callable = [r \in ResourceIds |-> <<"callable", r, r>> \in dv]
        /\ template = ResourceIds \ absent
        /\ cond = [r \in ResourceIds |-> r \notin cf]
        /\ devUsed = Cardinality(dv) + Cardinality(absent) + Cardinality(cf)
    /\ Closed(template)

\* A chain of n resources of registered types: each resource names the next
\* one of the template ("backward": only the last can be deployed at first)
\* or the previous one ("forward"), by a Ref or by DependsOn.
ChainInit ==
    \E n \in 1..MaxChain, dir \in {"backward", "forward"}, kind \in {"ref", "dep"} :
        LET neighbour == [r \in 1..n |->
                            IF dir = "backward"
                            THEN (IF r < n THEN {r + 1} ELSE {})
                            ELSE (IF r > 1 THEN {r - 1} ELSE {})]
        IN  /\ rtype = [r \in 1..n |-> "Known"]
            /\ updatable = [r \in 1..n |-> TRUE]
            /\ refs = [r \in 1..n |-> IF kind = "ref" THEN neighbour[r] ELSE {}]
            /\ dependsOn = [r \in 1..n |-> IF kind = "dep" THEN neighbour[r] ELSE {}]
            /\ outcome = [r \in 1..n |-> "ok"]
            /\ callable = [r \in 1..n |-> FALSE]
            /\ template = 1..n
            /\ cond = [r \in 1..n |-> TRUE]
            /\ devUsed = MaxDeviations

\* apply_parameter_changes has not been called on its own.
NoParamRun == [called |-> FALSE]

\* get_resource_dependencies has not been called on its own.
NoDepRun == [called |-> FALSE]

\* invoke_function has not been called on its own.
NoInvRun == [called |-> FALSE]

\* merge_properties has not been called on its own.
NoMergeRun == [called |-> FALSE]

\* Route53RecordSetProvider.create has not been called on its own.
NoR53Run == [called |-> FALSE]

\* construct_changes has not been called on its own.
NoPlan ==
    [old |-> {}, new |-> {}, initialize |-> FALSE, filter_unchanged_resources |-> FALSE,
     differs |-> {}, changes |-> <<>>]

\* A stack as constructed: no status, nothing deployed.
NewStack ==
    /\ planned = NoPlan
    /\ paramRun = NoParamRun
    /\ depRun = NoDepRun
    /\ invRun = NoInvRun
    /\ mergeRun = NoMergeRun
    /\ r53Run = NoR53Run
    /\ callerPc = "idle"
    /\ status = NoStatus
    /\ props = [r \in Ids |-> 0]
    /\ resStatus = [r \in Ids |-> NoStatus]
    /\ physId = [r \in Ids |-> NoId]
    /\ outputs = template
    /\ resolvedOutputs = [r \in Ids |-> NoId]
    /\ csStatus = "CREATE_COMPLETE"
    /\ csExecStatus = "AVAILABLE"
    /\ deployed = [r \in Ids |-> NoId]
    /\ calls = {}
    /\ warned = {}
    /\ pc = "idle"
    /\ entry = "none"
    /\ action = "CREATE"
    /\ isChangeSet = FALSE
    /\ newTemplate = template
    /\ changes = <<>>
    /\ changesDone = <<>>
    /\ iter = 0
    /\ j = 1
    /\ updated = FALSE
    /\ cycle = 0
    /\ delRes = {}
    /\ raised = "none"
    /\ workerExc = "none"
    /\ loopResult = "none"
    /\ loggedFinal = {}
    /\ runs = 0

\* No output of the templates has an Export whose Name is a reference.
NoExports == exportName = [r \in Ids |-> NoId]

\* No resource of the templates imports a value.
NoImports == imports = [r \in Ids |-> "none"]

\* A stack as constructed, with its template.
Init == (ScenarioInit \/ ChainInit) /\ NewStack /\ NoExports /\ NoImports

\* ----------------------------------------------------------- change planner

\* TemplateDeployer.get_change_config
get_change_config(a, r) == [Action |-> a, LogicalResourceId |-> r]

\* One change per id of the sequence, in its order.
RECURSIVE ChangesOf(_, _)
ChangesOf(a, ids) ==
    IF ids = <<>> THEN <<>>
    ELSE <<get_change_config(a, Head(ids))>> \o ChangesOf(a, Tail(ids))

ChangesFor(a, S) == ChangesOf(a, SeqOf(S))

\* A resource_config_differs that never finds a difference.
resource_config_differs_Never(r, touched) == FALSE

\* TemplateDeployer.resource_config_differs, called by apply_changes after
\* init_resource_status: the property values differ, or the status the
\* resource had before this run names DELETE.
resource_config_differs(r, touched) ==
    \/ r \in touched
    \/ resStatus[r] \in {"DELETE_IN_PROGRESS", "DELETE_COMPLETE", "DELETE_FAILED"}

\* A construct_changes that ignores filter_unchanged_resources.
construct_changes_NoFilter(old, new, initialize, filter_unchanged_resources, differs) ==
    LET deletes == old \ new
        adds == IF initialize THEN new ELSE new \ old
        modifies == IF initialize THEN {} ELSE new \cap old
    IN  ChangesFor("Remove", deletes) \o ChangesFor("Add", adds)
            \o ChangesFor("Modify", modifies)

\* TemplateDeployer.construct_changes: the Removes, then the Adds, then the
\* Modifies; with filter_unchanged_resources, a Modify is kept only when
\* resource_config_differs, which it does for the resources of differs.
construct_changes(old, new, initialize, filter_unchanged_resources, differs) ==
    LET deletes == old \ new
        adds == IF initialize THEN new ELSE new \ old
        modifies == IF initialize THEN {} ELSE new \cap old
        kept == {r \in modifies : ~filter_unchanged_resources \/ r \in differs}
    IN  ChangesFor("Remove", deletes) \o ChangesFor("Add", adds)
            \o ChangesFor("Modify", kept)

\* TemplateDeployer.init_resource_status(old_resources, action="UPDATE")
init_resource_status(old) ==
    [r \in Ids |-> IF r \in old THEN InProgress("UPDATE") ELSE resStatus[r]]

\* An entry point without except clause: the status it set before the call
\* stays.
EntryExcept_NoHandler(e, act) ==
    /\ status' = InProgress(act)
    /\ UNCHANGED csStatus

\* The except clause of the entry point around apply_changes: deploy_stack
\* and apply_change_set set <ACTION>_FAILED and re-raise; update_stack has none.
EntryExcept(e, act) ==
    CASE e = "deploy_stack" ->
            /\ status' = Failed("CREATE")
            /\ UNCHANGED csStatus
      [] e = "apply_change_set" ->
            /\ status' = Failed(act)
            /\ csStatus' = Failed(act)
      [] e = "update_stack" ->
            /\ status' = InProgress(act)
            /\ UNCHANGED csStatus

\* TemplateDeployer.apply_changes, after the entry point has set the stack to
\* <ACTION>_IN_PROGRESS: the resources of the old template are marked, the
\* plan is built, the properties of the Adds and Modifies are merged, and
\* either NoStackUpdates is raised or the worker thread is started.
apply_changes(e, newT, newCond, touched, initialize, act, cs) ==
    \E plan \in {construct_changes(template, newT, initialize, FALSE, {})} :
    LET old == template
        contains_changes ==
            \E k \in 1..Len(plan) :
                \/ plan[k].Action # "Modify"
                \/ resource_config_differs(plan[k].LogicalResourceId, touched)
        merged == {plan[k].LogicalResourceId :
                     k \in {m \in 1..Len(plan) : plan[m].Action \in {"Modify", "Add"}}}
    IN  /\ resStatus' = init_resource_status(old)
        /\ template' = old \cup merged
        /\ props' = [r \in Ids |->
                       IF r \in merged /\ r \in touched THEN 1 - props[r] ELSE props[r]]
        /\ entry' = e
        /\ action' = act
        /\ isChangeSet' = cs
        /\ newTemplate' = newT
        /\ runs' = runs + 1
        /\ calls' = {}
        /\ warned' = {}
        /\ changesDone' = <<>>
        /\ iter' = 0
        /\ j' = 1
        /\ updated' = FALSE
        /\ workerExc' = "none"
        /\ loopResult' = "none"
        /\ UNCHANGED <<templateVars, plannerVars, callerVars, physId, resolvedOutputs, csExecStatus, deployed,
                       deleteVars>>
        /\ IF ~contains_changes
           THEN /\ raised' = "NoStackUpdates"
                /\ EntryExcept(e, act)
                /\ pc' = "idle"
                /\ changes' = <<>>
                /\ UNCHANGED <<cond, outputs>>
           ELSE /\ raised' = "none"
                /\ status' = InProgress(act)
                /\ UNCHANGED csStatus
                /\ outputs' = outputs \cup newT
                /\ cond' = newCond
                /\ pc' = "loop"
                /\ changes' = plan

\* ------------------------------------------------------------- entry points

\* The entry points are called one after the other on a stack that has not
\* been deleted; a stack is created by deploy_stack or by executing a change
\* set, and updated or deleted after that.
CanEnter == pc = "idle" /\ runs < MaxRuns /\ status # "DELETE_COMPLETE"
Created == status # NoStatus

\* TemplateDeployer.deploy_stack
deploy_stack ==
    /\ CanEnter
    /\ devUsed' = devUsed
    /\ apply_changes("deploy_stack", template, cond, {}, TRUE, "CREATE", FALSE)

\* The template a change set or update_stack submits: the resources it
\* holds, the conditions that are false in it, the resources whose property
\* values differ from the stack's.
NewTemplates ==
    {t \in [absent : SubsetsUpTo(Ids, MaxDeviations - devUsed),
            cf : SubsetsUpTo(Ids, MaxDeviations - devUsed),
            touched : SubsetsUpTo(Ids, MaxDeviations - devUsed)] :
        /\ t.cf \cap t.absent = {}
        /\ t.touched \cap t.absent = {}
        /\ Cardinality(t.absent) + Cardinality(t.cf) + Cardinality(t.touched)
              <= MaxDeviations - devUsed
        /\ Closed(Ids \ t.absent)}

\* The Conditions of the resources once the conditions of the submitted
\* template are merged into the stack's: a resource the template holds has the
\* Condition the template gives it, a resource it lacks keeps its definition
\* in the stack, and its Condition with it.
NewConditions(t) == [r \in Ids |-> IF r \in t.absent THEN cond[r] ELSE r \notin t.cf]

\* An apply_change_set that updates every stack that has a status.
change_set_action_Created(st) == IF st # NoStatus THEN "UPDATE" ELSE "CREATE"

\* apply_change_set, the action it picks from the status of the stack.
change_set_action(st) ==
    IF st \in {"CREATE_COMPLETE", "UPDATE_COMPLETE"} THEN "UPDATE" ELSE "CREATE"

\* TemplateDeployer.apply_change_set
apply_change_set ==
    /\ CanEnter
    /\ \E t \in NewTemplates :
        LET act == change_set_action(status)
        IN  /\ devUsed' = devUsed + Cardinality(t.absent) + Cardinality(t.cf)
                            + Cardinality(t.touched)
            /\ apply_changes("apply_change_set", Ids \ t.absent,
                             NewConditions(t), t.touched,
                             FALSE, act, TRUE)

\* TemplateDeployer.update_stack
update_stack ==
    /\ CanEnter
    /\ Created
    /\ \E t \in NewTemplates :
        /\ devUsed' = devUsed + Cardinality(t.absent) + Cardinality(t.cf)
                        + Cardinality(t.touched)
        /\ apply_changes("update_stack", Ids \ t.absent,
                         NewConditions(t), t.touched,
                         FALSE, "UPDATE", FALSE)

\* ---------------------------------------------------------- deployment loop

\* A prepare_should_deploy_change that lets every deployable Add through,
\* deployed or not.
prepare_should_deploy_change_Redeploy(c) ==
    LET r == c.LogicalResourceId
    IN  IF ~evaluate_resource_condition(r) THEN "false"
        ELSE IF resolve_refs_recursively(r) # "ok" THEN resolve_refs_recursively(r)
        ELSE IF is_deployable_resource(r) THEN "true" ELSE "false"

\* A prepare_should_deploy_change that drops the Modify of a resource that
\* is not deployed.
prepare_should_deploy_change_DropUndeployed(c) ==
    LET r == c.LogicalResourceId
    IN  IF ~evaluate_resource_condition(r) THEN "false"
        ELSE IF resolve_refs_recursively(r) # "ok" THEN resolve_refs_recursively(r)
        ELSE IF c.Action = "Add"
             THEN IF ~is_deployable_resource(r) \/ is_deployed(r) THEN "false" ELSE "true"
        ELSE IF c.Action = "Modify"
             THEN IF is_deployed(r) /\ is_updateable(r) THEN "true" ELSE "false"
        ELSE IF is_deployable_resource(r) THEN "true" ELSE "false"

\* TemplateDeployer.prepare_should_deploy_change, as "true" / "false", or the
\* exception resolve_refs_recursively raises ("dnys", "error").
prepare_should_deploy_change(c) ==
    LET r == c.LogicalResourceId
    IN  IF ~evaluate_resource_condition(r) THEN "false"
        ELSE IF resolve_refs_recursively(r) # "ok" THEN resolve_refs_recursively(r)
        ELSE IF c.Action \in {"Add", "Modify"}
             THEN IF c.Action = "Add" /\ ~is_deployable_resource(r) THEN "false"
                  ELSE IF ~is_deployed(r) THEN "true"
                  ELSE IF c.Action = "Add" THEN "false"
                  ELSE IF ~is_updateable(r) THEN "false"
                  ELSE "true"
             ELSE IF is_deployable_resource(r) THEN "true" ELSE "false"

\* The service action apply_change picks: create for an Add and for a change
\* whose cached _deployed is False, delete for a Remove, update for a Modify.
ServiceAction(c) ==
    IF c.Action = "Add" \/ (c.Action = "Modify" /\ ~is_deployed(c.LogicalResourceId))
    THEN ACTION_CREATE
    ELSE IF c.Action = "Remove" THEN ACTION_DELETE
    ELSE ACTION_UPDATE

\* execute_resource_action / update_resource reach the service only for a
\* type with a provider; otherwise they log and return None.
MakesCall(r) == get_deployment_config(r)

\* check_not_found_exception: the text of the exception the call raises holds
\* one of the not-found markers.
check_not_found_exception(r) == outcome[r] = "notfound"

\* invoke_function, for a descriptor that names a client method: "ok" when
\* the call returns, "swallowed" when a delete raises a not-found exception
\* (invoke_function returns None), else the exception re-raised.
invoke_function(r, op) ==
    IF outcome[r] \in {"ok", "dnys"} THEN outcome[r]
    ELSE IF op = ACTION_DELETE /\ check_not_found_exception(r) THEN "swallowed"
    ELSE "error"

\* execute_resource_action for a type with a provider: a callable descriptor
\* is called directly, outside every try; a method name goes through
\* invoke_function.
execute_resource_action(r, op) ==
    IF callable[r]
    THEN (IF outcome[r] \in {"ok", "dnys"} THEN outcome[r] ELSE "error")
    ELSE invoke_function(r, op)

\* update_resource: the model instance's update_resource, called directly.
update_resource(r) == IF outcome[r] \in {"ok", "dnys"} THEN outcome[r] ELSE "error"

\* The service action op of apply_change on r, as an outcome.
CallOutcome(r, op) ==
    IF op = ACTION_UPDATE THEN update_resource(r) ELSE execute_resource_action(r, op)

\* How one step of "while j < len(changes)" ends for changes[j]:
\* "drop" (del changes[j]; continue), "defer" (j += 1), "apply" (the action
\* succeeded), "error" (an exception other than DependencyNotYetSatisfied).
StepOutcome(c) ==
    LET r == c.LogicalResourceId
        should == prepare_should_deploy_change(c)
    IN  IF should = "dnys" THEN "defer"
        ELSE IF should = "error" THEN "error"
        ELSE IF should = "false" THEN "drop"
        ELSE IF c.Action \in {"Add", "Modify"} /\ ~all_resource_dependencies_satisfied(r)
             THEN "defer"
        ELSE IF ~MakesCall(r) THEN "apply"
        ELSE IF CallOutcome(r, ServiceAction(c)) = "dnys" THEN "defer"
        ELSE IF CallOutcome(r, ServiceAction(c)) = "error" THEN "error"
        ELSE "apply"

\* The dependencies get_unsatisfied_dependencies_for_resources looks at: it
\* goes through them in template order and stops at the first one that is
\* deployable and not deployed.
DependenciesChecked(r) ==
    {d \in get_resource_dependencies(r) : \A u \in get_unsatisfied_dependencies(r) : d <= u}

\* The resources one step of the loop on the change c logs a missing provider
\* for: the resource itself (is_deployable_resource for an Add or Remove,
\* retrieve_resource_details for a Modify, execute_resource_action when the
\* change is applied), and the dependencies is_deployable_resource is asked
\* about.  Nothing is logged when the condition is false or resolving raises.
StepWarnings(c) ==
    LET r == c.LogicalResourceId
        should == prepare_should_deploy_change(c)
    IN  IF ~evaluate_resource_condition(r) \/ should \notin {"true", "false"} THEN {}
        ELSE {x \in {r} : log_not_available_message(x)}
             \cup (IF should = "true" /\ c.Action \in {"Add", "Modify"}
                   THEN {d \in DependenciesChecked(r) : log_not_available_message(d)}
                   ELSE {})

\* A "del changes[j]" that leaves the list as it is.
RemoveAt_Keep(seq, k) == seq

\* A "del changes[j]" that deletes the last change of the list.
RemoveAt_Last(seq, k) == SubSeq(seq, 1, Len(seq) - 1)

\* "del changes[j]"
RemoveAt(seq, k) == SubSeq(seq, 1, k - 1) \o SubSeq(seq, k + 1, Len(seq))

InLoop == pc = "loop" /\ j <= Len(changes)

\* The service's state after a successful action on r.
ServiceAfter(r, op) ==
    IF op = ACTION_CREATE THEN [deployed EXCEPT ![r] = runs]
    ELSE IF op = ACTION_DELETE THEN [deployed EXCEPT ![r] = NoId]
    ELSE deployed

\* determine_resource_physical_id: the id of the provider's fetched state,
\* else the resource's PhysicalResourceId.
determine_resource_physical_id(r, svc) ==
    IF rtype[r] = "Known" /\ svc[r] # NoId THEN svc[r] ELSE physId[r]

\* An update_resource_details that mints a new id with every update.
update_resource_details_Mint(r, svc, act) ==
    IF act = "UPDATE" THEN runs ELSE physId[r]

\* TemplateDeployer.update_resource_details: the PhysicalResourceId written.
update_resource_details(r, svc, act) ==
    LET physical_id == IF physId[r] # NoId THEN physId[r]
                       ELSE determine_resource_physical_id(r, svc)
    IN  IF (physId[r] = NoId \/ act = "UPDATE") /\ physical_id # NoId
        THEN physical_id ELSE physId[r]

\* "del changes[j]; set_resource_status(<action>_COMPLETE); continue" for an
\* Add or Modify that should not be deployed, "del changes[j]; continue" for
\* a Remove that should not be removed.
DropChange ==
    /\ InLoop
    /\ StepOutcome(changes[j]) = "drop"
    /\ changes' = RemoveAt(changes, j)
    /\ resStatus' =
         IF changes[j].Action \in {"Add", "Modify"}
         THEN [resStatus EXCEPT ![changes[j].LogicalResourceId] =
                 Complete(get_action_name_for_resource_change(changes[j].Action))]
         ELSE resStatus
    /\ warned' = warned \cup StepWarnings(changes[j])
    /\ UNCHANGED <<templateVars, plannerVars, callerVars, status, template, cond, props, physId, outputs,
                   resolvedOutputs, csStatus, csExecStatus, deployed, calls,
                   changesDone, iter, j, updated, deleteVars, runVars>>

\* "j += 1": the dependencies are not satisfied, or DependencyNotYetSatisfied
\* was raised while preparing or applying the change.  A service action that
\* raised it was called.
DeferChange ==
    /\ InLoop
    /\ StepOutcome(changes[j]) = "defer"
    /\ j' = j + 1
    /\ calls' =
         LET c == changes[j]
             r == c.LogicalResourceId
         IN  IF /\ prepare_should_deploy_change(c) = "true"
                /\ (c.Action = "Remove" \/ all_resource_dependencies_satisfied(r))
             THEN calls \cup {<<r, ServiceAction(c)>>}
             ELSE calls
    /\ warned' = warned \cup StepWarnings(changes[j])
    /\ UNCHANGED <<templateVars, plannerVars, callerVars, stackVars, deployed, changes, changesDone, iter,
                   updated, deleteVars, runVars>>

\* apply_change succeeded: the service action ran, update_resource_details
\* recorded the physical id and <ACTION>_COMPLETE, the change moved from
\* changes to changes_done.
ApplyChange ==
    /\ InLoop
    /\ StepOutcome(changes[j]) = "apply"
    /\ LET c == changes[j]
           r == c.LogicalResourceId
           op == ServiceAction(c)
           svc == IF MakesCall(r) /\ CallOutcome(r, op) = "ok"
                  THEN ServiceAfter(r, op) ELSE deployed
           act == get_action_name_for_resource_change(c.Action)
       IN  /\ deployed' = svc
           /\ calls' = IF MakesCall(r) THEN calls \cup {<<r, op>>}
                       ELSE calls
           /\ physId' = [physId EXCEPT ![r] = update_resource_details(r, svc, act)]
           /\ resStatus' = [resStatus EXCEPT ![r] = Complete(act)]
           /\ changesDone' = Append(changesDone, c)
    /\ warned' = warned \cup StepWarnings(changes[j])
    /\ changes' = RemoveAt(changes, j)
    /\ updated' = TRUE
    /\ UNCHANGED <<templateVars, plannerVars, callerVars, status, template, cond, props, outputs,
                   resolvedOutputs, csStatus, csExecStatus, iter, j, deleteVars,
                   runVars>>

\* A loop that catches every exception the way it catches
\* DependencyNotYetSatisfied: the failure is noted and the pass goes on.
ApplyChangeFails_Continue ==
    /\ InLoop
    /\ StepOutcome(changes[j]) = "error"
    /\ j' = j + 1
    /\ loopResult' = "error"
    /\ UNCHANGED <<templateVars, plannerVars, callerVars, stackVars, serviceVars, changes, changesDone,
                   iter, updated, deleteVars, pc, entry, action, isChangeSet,
                   newTemplate, raised, workerExc, runs, devUsed>>

\* An exception other than DependencyNotYetSatisfied leaves the loop.
ApplyChangeFails ==
    /\ InLoop
    /\ StepOutcome(changes[j]) = "error"
    /\ calls' =
         LET c == changes[j]
         IN  IF prepare_should_deploy_change(c) = "true"
             THEN calls \cup {<<c.LogicalResourceId, ServiceAction(c)>>}
             ELSE calls
    /\ warned' = warned \cup StepWarnings(changes[j])
    /\ pc' = "raising"
    /\ workerExc' = "Exception"
    /\ loopResult' = "error"
    /\ UNCHANGED <<templateVars, plannerVars, callerVars, stackVars, deployed, loopVars, deleteVars,
                   entry, action, isChangeSet, newTemplate, raised, runs, devUsed>>

PassDone == pc = "loop" /\ j > Len(changes)

\* End of a pass with changes left and progress made: the next pass.
NextPass ==
    /\ PassDone
    /\ changes # <<>>
    /\ updated
    /\ iter + 1 < max_iters
    /\ iter' = iter + 1
    /\ j' = 1
    /\ updated' = FALSE
    /\ UNCHANGED <<templateVars, plannerVars, callerVars, stackVars, serviceVars, changes, changesDone,
                   deleteVars, runVars>>

\* An end of pass that starts another pass although the last one made no
\* progress.
NoProgress_Retry ==
    /\ PassDone
    /\ changes # <<>>
    /\ ~updated
    /\ iter + 1 < max_iters
    /\ iter' = iter + 1
    /\ j' = 1
    /\ UNCHANGED <<templateVars, plannerVars, callerVars, stackVars, serviceVars, changes, changesDone,
                   updated, deleteVars, runVars>>

\* End of a pass with changes left and no progress: the loop raises.
NoProgress ==
    /\ PassDone
    /\ changes # <<>>
    /\ ~updated
    /\ pc' = "raising"
    /\ workerExc' = "Exception"
    /\ loopResult' = "no_progress"
    /\ UNCHANGED <<templateVars, plannerVars, callerVars, stackVars, serviceVars, loopVars, deleteVars,
                   entry, action, isChangeSet, newTemplate, raised, runs, devUsed>>

\* resolve_outputs, the Export name of output o: resolve_refs_recursively on
\* it, outside the try, as an outcome.
resolve_export(o, tmpl, ids) ==
    IF exportName[o] = NoId THEN "ok" ELSE resolve_ref(exportName[o], {}, tmpl, ids)

\* resolve_outputs raises: the Export name of one of the outputs does not
\* resolve.
resolve_outputs_raises(tmpl, ids) ==
    \E o \in outputs : resolve_export(o, tmpl, ids) # "ok"

\* resolve_outputs when it returns: the Ref of each output, None when
\* resolving the details of the output (its Value, its Export) raises inside
\* the try or yields None.
resolve_outputs(tmpl, ids) ==
    [o \in Ids |->
        IF /\ o \in outputs
           /\ resolve_ref(o, {}, tmpl, ids) = "ok"
           /\ resolve_export(o, tmpl, ids) = "ok"
        THEN (IF rtype[o] = "Parameter" THEN ParameterProps
              ELSE get_ref_from_model(o, ids))
        ELSE NoId]

\* apply_changes_in_loop._run, the part after do_apply_changes_in_loop: the
\* stack status, and the change set's metadata.
RunStatus(st) ==
    /\ status' = st
    /\ IF isChangeSet
       THEN /\ csStatus' = st
            /\ csExecStatus' = IF st \in FailedStatuses THEN "EXECUTE_FAILED"
                               ELSE "EXECUTE_COMPLETE"
       ELSE UNCHANGED <<csStatus, csExecStatus>>

\* A clean-up that takes every resource with an applied change out of the
\* template.
deletes_All(done) == {done[k].LogicalResourceId : k \in 1..Len(done)}

\* "deletes = [c for c in changes_done if c[...]["Action"] == "Remove"]", as
\* the logical ids popped from the template.
deletes(done) ==
    {done[k].LogicalResourceId : k \in {m \in 1..Len(done) : done[m].Action = "Remove"}}

\* The loop ends without raising (no change left, or max_iters passes made):
\* the removed resources leave the template, the outputs are resolved, and
\* _run sets <ACTION>_COMPLETE.  When resolve_outputs raises,
\* stack.resolved_outputs is not assigned and the exception leaves
\* do_apply_changes_in_loop.
LoopExit ==
    /\ PassDone
    /\ changes = <<>> \/ (updated /\ iter + 1 = max_iters)
    /\ UNCHANGED <<templateVars, plannerVars, callerVars, cond, resStatus, outputs, serviceVars, loopVars,
                   deleteVars, entry, action, isChangeSet, newTemplate, raised,
                   runs, devUsed>>
    /\ LET removed == deletes(changesDone)
           ids == [r \in Ids |-> IF r \in removed THEN NoId ELSE physId[r]]
       IN  /\ template' = template \ removed
           /\ physId' = ids
           /\ props' = [r \in Ids |-> IF r \in removed THEN 0 ELSE props[r]]
           /\ IF resolve_outputs_raises(template \ removed, ids)
              THEN /\ pc' = "raising"
                   /\ workerExc' = "Exception"
                   /\ loopResult' = "outputs"
                   /\ UNCHANGED <<resolvedOutputs, status, csStatus, csExecStatus>>
              ELSE /\ resolvedOutputs' = resolve_outputs(template \ removed, ids)
                   /\ RunStatus(Complete(action))
                   /\ loopResult' = "ok"
                   /\ pc' = "idle"
                   /\ UNCHANGED workerExc

\* An except clause of _run that sets the status of a run without error.
ExceptStatus_Complete(act) == Complete(act)

\* The status the except clause of _run picks: f"{action}_FAILED".
ExceptStatus(act) == Failed(act)

\* An except clause of _run that strips the removed resources from the
\* template before it sets the status.
WorkerExcept_CleanUp ==
    /\ pc = "raising"
    /\ RunStatus(ExceptStatus(action))
    /\ workerExc' = "none"
    /\ pc' = "idle"
    /\ template' = template \ deletes(changesDone)
    /\ UNCHANGED <<templateVars, plannerVars, callerVars, cond, props, resStatus, physId, outputs,
                   resolvedOutputs, serviceVars, loopVars, deleteVars, entry,
                   action, isChangeSet, newTemplate, raised, loopResult, runs, devUsed>>

\* apply_changes_in_loop._run, except clause: the exception is caught and
\* logged, <ACTION>_FAILED is set, and _run returns.
WorkerExcept ==
    /\ pc = "raising"
    /\ RunStatus(ExceptStatus(action))
    /\ workerExc' = "none"
    /\ pc' = "idle"
    /\ UNCHANGED <<templateVars, plannerVars, callerVars, template, cond, props, resStatus, physId, outputs,
                   resolvedOutputs, serviceVars, loopVars, deleteVars, entry,
                   action, isChangeSet, newTemplate, raised, loopResult, runs, devUsed>>

\* -------------------------------------------------------------- delete_stack

\* Stack.resource_status raises for a resource without a status entry.
resource_status_fails(r) == resStatus[r] = NoStatus

\* delete_stack._safe_lookup_is_deleted: DELETE_COMPLETE, or assumed deleted
\* when the lookup fails.
safe_lookup_is_deleted(r) ==
    IF resource_status_fails(r) THEN TRUE ELSE resStatus[r] = "DELETE_COMPLETE"

\* A cycle that keeps every resource, deleted or not.
Retained_All(S) == S

\* The resources a cycle of delete_stack keeps: those not looked up as deleted.
Retained(S) == {r \in S : ~safe_lookup_is_deleted(r)}

\* delete_stack, up to the first cycle; it returns at once when no resource
\* is retained.
delete_stack ==
    /\ CanEnter
    /\ Created
    /\ entry' = "delete_stack"
    /\ action' = "DELETE"
    /\ isChangeSet' = FALSE
    /\ newTemplate' = template
    /\ runs' = runs + 1
    /\ calls' = {}
    /\ warned' = {}
    /\ raised' = "none"
    /\ workerExc' = "none"
    /\ loopResult' = "none"
    /\ loggedFinal' = {}
    /\ cycle' = 1
    /\ delRes' = Retained(template)
    /\ IF Retained(template) = {}
       THEN /\ status' = "DELETE_COMPLETE"
            /\ pc' = "idle"
       ELSE /\ status' = "DELETE_IN_PROGRESS"
            /\ pc' = "delete"
    /\ UNCHANGED <<templateVars, plannerVars, callerVars, template, cond, props, resStatus, physId, outputs,
                   resolvedOutputs, csStatus, csExecStatus, deployed, loopVars,
                   devUsed>>

\* One resource of a cycle: "skip" when its condition is false, "deleted"
\* when execute_resource_action(delete) returned, "failed" when it raised.
DeleteOutcome(r) ==
    IF ~evaluate_resource_condition(r) THEN "skip"
    ELSE IF MakesCall(r) /\ execute_resource_action(r, ACTION_DELETE) \in {"dnys", "error"}
         THEN "failed"
    ELSE "deleted"

\* One cycle of delete_stack over the retained resources: each is deleted
\* and set to DELETE_COMPLETE, or its failure is logged (as final in the
\* last cycle); then the next cycle starts over the resources that are not
\* DELETE_COMPLETE, or delete_stack ends with DELETE_COMPLETE.
DeleteCycle ==
    /\ pc = "delete"
    /\ LET called == {r \in delRes : DeleteOutcome(r) # "skip" /\ MakesCall(r)}
           deleted == {r \in delRes : DeleteOutcome(r) = "deleted"}
           failed == {r \in delRes : DeleteOutcome(r) = "failed"}
           left == delRes \ deleted
       IN  /\ calls' = calls \cup {<<r, ACTION_DELETE>> : r \in called}
           /\ warned' = warned \cup {r \in delRes : DeleteOutcome(r) # "skip"
                                                      /\ log_not_available_message(r)}
           /\ deployed' = [r \in Ids |->
                             IF /\ r \in deleted
                                /\ MakesCall(r)
                                /\ execute_resource_action(r, ACTION_DELETE) = "ok"
                             THEN NoId ELSE deployed[r]]
           /\ resStatus' = [r \in Ids |->
                              IF r \in deleted THEN "DELETE_COMPLETE" ELSE resStatus[r]]
           /\ loggedFinal' = IF cycle = max_cycle THEN loggedFinal \cup failed
                             ELSE loggedFinal
           /\ IF cycle = max_cycle \/ left = {}
              THEN /\ status' = "DELETE_COMPLETE"
                   /\ pc' = "idle"
                   /\ UNCHANGED <<cycle, delRes>>
              ELSE /\ cycle' = cycle + 1
                   /\ delRes' = left
                   /\ UNCHANGED <<status, pc>>
    /\ UNCHANGED <<templateVars, plannerVars, callerVars, template, cond, props, physId, outputs,
                   resolvedOutputs, csStatus, csExecStatus, loopVars, entry,
                   action, isChangeSet, newTemplate, raised, workerExc, loopResult, runs,
                   devUsed>>

\* ---------------------------------------------------------- specifications

Next ==
    \/ deploy_stack
    \/ apply_change_set
    \/ update_stack
    \/ delete_stack
    \/ DropChange
    \/ DeferChange
    \/ ApplyChange
    \/ ApplyChangeFails
    \/ NextPass
    \/ NoProgress
    \/ LoopExit
    \/ WorkerExcept
    \/ DeleteCycle

Spec == Init /\ [][Next]_vars

\* construct_changes called on its own, for a pair of resource maps, the two
\* flags, and the resources of the new map whose configuration differs.
PlanChanges ==
    /\ planned = NoPlan
    /\ \E old \in SUBSET Ids, new \in SUBSET Ids, initialize \in BOOLEAN,
          filter \in BOOLEAN, touched \in SUBSET Ids :
          LET differs == {r \in Ids : resource_config_differs(r, touched)}
          IN  planned' = [old |-> old, new |-> new, initialize |-> initialize,
                          filter_unchanged_resources |-> filter, differs |-> differs,
                          changes |-> construct_changes(old, new, initialize, filter,
                                                        differs)]
    /\ UNCHANGED <<templateVars, callerVars, stackVars, serviceVars, loopVars, deleteVars,
                   runVars, paramRun, depRun, invRun, mergeRun,
                   r53Run>>

\* The planner alone, on a new stack with the plain template.
PlannerInit == ScenarioInit /\ devUsed = 0 /\ NewStack /\ NoExports /\ NoImports

PlannerNext == PlanChanges

PlannerSpec == PlannerInit /\ [][PlannerNext]_vars

\* A worker thread is running: apply_changes_in_loop has started _run and
\* _run has not returned.
WorkerRunning == pc \in {"loop", "raising"}

\* delete_stack called while the worker thread of the stack is running.  The
\* deployer takes no lock and does not look at the worker: the caller's
\* thread sets DELETE_IN_PROGRESS and starts its first cycle, or returns at
\* once with DELETE_COMPLETE when no resource is retained.
CallerDeleteStack ==
    /\ WorkerRunning
    /\ callerPc = "idle"
    /\ runs < MaxRuns
    /\ runs' = runs + 1
    /\ loggedFinal' = {}
    /\ cycle' = 1
    /\ delRes' = Retained(template)
    /\ IF Retained(template) = {}
       THEN /\ status' = "DELETE_COMPLETE"
            /\ callerPc' = "idle"
       ELSE /\ status' = "DELETE_IN_PROGRESS"
            /\ callerPc' = "delete"
    /\ UNCHANGED <<templateVars, plannerVars, template, cond, props, resStatus, physId,
                   outputs, resolvedOutputs, csStatus, csExecStatus, serviceVars,
                   loopVars, pc, entry, action, isChangeSet, newTemplate, raised,
                   workerExc, loopResult, devUsed>>

\* One cycle of that delete_stack, in the caller's thread, between two steps
\* of the worker thread or after its last.
CallerDeleteCycle ==
    /\ callerPc = "delete"
    /\ LET called == {r \in delRes : DeleteOutcome(r) # "skip" /\ MakesCall(r)}
           deleted == {r \in delRes : DeleteOutcome(r) = "deleted"}
           failed == {r \in delRes : DeleteOutcome(r) = "failed"}
           left == delRes \ deleted
       IN  /\ calls' = calls \cup {<<r, ACTION_DELETE>> : r \in called}
           /\ warned' = warned \cup {r \in delRes : DeleteOutcome(r) # "skip"
                                                      /\ log_not_available_message(r)}
           /\ deployed' = [r \in Ids |->
                             IF /\ r \in deleted
                                /\ MakesCall(r)
                                /\ execute_resource_action(r, ACTION_DELETE) = "ok"
                             THEN NoId ELSE deployed[r]]
           /\ resStatus' = [r \in Ids |->
                              IF r \in deleted THEN "DELETE_COMPLETE" ELSE resStatus[r]]
           /\ loggedFinal' = IF cycle = max_cycle THEN loggedFinal \cup failed
                             ELSE loggedFinal
           /\ IF cycle = max_cycle \/ left = {}
              THEN /\ status' = "DELETE_COMPLETE"
                   /\ callerPc' = "idle"
                   /\ UNCHANGED <<cycle, delRes>>
              ELSE /\ cycle' = cycle + 1
                   /\ delRes' = left
                   /\ UNCHANGED <<status, callerPc>>
    /\ UNCHANGED <<templateVars, plannerVars, template, cond, props, physId, outputs,
                   resolvedOutputs, csStatus, csExecStatus, loopVars, runVars>>

\* A deployment and a caller that does not wait for it: deploy_stack starts
\* the worker thread and returns, the worker runs the loop, and delete_stack
\* may be called meanwhile.
ConcurrentInit == ScenarioInit /\ NewStack /\ NoExports /\ NoImports

ConcurrentNext ==
    \/ deploy_stack
    \/ DropChange
    \/ DeferChange
    \/ ApplyChange
    \/ ApplyChangeFails
    \/ NextPass
    \/ NoProgress
    \/ LoopExit
    \/ WorkerExcept
    \/ CallerDeleteStack
    \/ CallerDeleteCycle

ConcurrentSpec == ConcurrentInit /\ [][ConcurrentNext]_vars

\* ------------------------------------------------------- stack parameters

\* The parameter keys and the parameter values of the calls.
ParameterKeys == {"P", "Q"}
ParameterStrings == {"a", "b"}

\* A value of the dict apply_parameter_changes builds for a key: no entry
\* for the key, an entry whose ParameterValue is None, one whose
\* ParameterValue is a string, or one whose ParameterValue is itself the
\* parameter dict {"ParameterKey": k, "ParameterValue": x} of the old stack.
Absent == <<"absent">>
NoneValue == <<"none">>
Str(x) == <<"str", x>>
ParamDict(v) == <<"dict", v>>

\* What the old stack holds for a key, what the new template declares for
\* it, and what a list of submitted entries holds for it.
OldValues == {Absent} \cup {Str(x) : x \in ParameterStrings}
Declarations == {<<"undeclared">>, <<"nodefault">>} \cup {<<"default", x>> : x \in ParameterStrings}
Entries ==
    {<<"noentry">>} \cup {<<"entry", x, u>> : x \in ParameterStrings, u \in BOOLEAN}

\* The loop over new_stack.template["Parameters"]: a declared key gets a new
\* entry whose ParameterValue is the Default when there is one, and
\* parameters.get(logical_id), the old entry itself or None, when there is none.
overlay_template(old, decl) ==
    IF decl[1] = "undeclared" THEN old
    ELSE IF decl[1] = "default" THEN Str(decl[2])
    ELSE IF old = Absent THEN NoneValue
    ELSE ParamDict(old)

\* _update_params for the entry of one list: it replaces the value unless
\* UsePreviousValue is set.
update_params(cur, e) ==
    IF e[1] = "entry" /\ ~e[3] THEN Str(e[2]) ELSE cur

\* TemplateDeployer.apply_parameter_changes: the value it leaves in
\* old_stack.metadata["Parameters"] for each key, from the old stack's
\* values, the new template's declarations, the entries of the new stack and
\* the entries of its change set.
apply_parameter_changes(old, decl, newEntries, csEntries) ==
    [k \in ParameterKeys |->
        update_params(update_params(overlay_template(old[k], decl[k]), newEntries[k]),
                      csEntries[k])]

\* apply_parameter_changes called on its own.
ApplyParameterChanges ==
    /\ ~paramRun.called
    /\ \E old \in [ParameterKeys -> OldValues], decl \in [ParameterKeys -> Declarations],
          newEntries \in [ParameterKeys -> Entries], csEntries \in [ParameterKeys -> Entries] :
          paramRun' = [called |-> TRUE, old |-> old, decl |-> decl,
                       newEntries |-> newEntries, csEntries |-> csEntries,
                       parameters |-> apply_parameter_changes(old, decl, newEntries,
                                                              csEntries)]
    /\ UNCHANGED <<templateVars, callerVars, stackVars, serviceVars, loopVars, deleteVars,
                   runVars, planned, depRun, invRun, mergeRun,
                   r53Run>>

\* The parameters alone, on a new stack with the plain template.
ParameterInit == PlannerInit

ParameterNext == ApplyParameterChanges

ParameterSpec == ParameterInit /\ [][ParameterNext]_vars

\* ------------------------------------------------- dependencies, as strings

\* The logical ids of the templates get_resource_dependencies is called on:
\* the strings of one or two of the characters a and b.
LogicalIds == UNION {[1..n -> {"a", "b"}] : n \in 1..2}

\* "s in t" of two strings
IsSubstring(s, t) ==
    \E k \in 0..(Len(t) - Len(s)) : SubSeq(t, k + 1, k + Len(s)) = s

\* The text json.dumps writes for {"Ref": x} and for {"Fn::GetAtt": [x, "Arn"]}:
\* the opening up to the quote before the id as one symbol, then the
\* characters of the id, then the rest.
RefText(x) == <<"{\"Ref\": \"">> \o x \o <<"\"}">>
GetAttText(x) == <<"{\"Fn::GetAtt\": [\"">> \o x \o <<"\", ">> \o <<"\"Arn\"]}">>

\* search1 and search2 of get_resource_dependencies
search1(other_id) == <<"{\"Ref\": \"">> \o other_id \o <<"\"}">>
search2(other_id) == <<"{\"Fn::GetAtt\": [\"">> \o other_id \o <<"\", ">>

\* json.dumps(json_safe(raw_resource)): the text of the properties, which
\* hold a Ref to each id of refNames and a GetAtt of each id of attNames.
RECURSIVE dumped(_, _)
dumped(refNames, attNames) ==
    IF refNames # {}
    THEN LET x == CHOOSE y \in refNames : TRUE
         IN  <<", ">> \o RefText(x) \o dumped(refNames \ {x}, attNames)
    ELSE IF attNames # {}
    THEN LET x == CHOOSE y \in attNames : TRUE
         IN  <<", ">> \o GetAttText(x) \o dumped(refNames, attNames \ {x})
    ELSE <<"}">>

\* The DependsOn of a resource: a string (isString, names holds it alone) or
\* a list of strings; a resource without DependsOn has the empty list.
DependsOnValues ==
    {[isString |-> TRUE, names |-> {x}] : x \in LogicalIds}
        \cup {[isString |-> FALSE, names |-> S] :
                 S \in {T \in SUBSET LogicalIds : Cardinality(T) <= 1}}

\* "other_id in resource.get("DependsOn", [])": a substring test on a string,
\* membership in a list.
in_depends_on(other_id, dependsOnValue) ==
    IF dependsOnValue.isString
    THEN \E x \in dependsOnValue.names : IsSubstring(other_id, x)
    ELSE other_id \in dependsOnValue.names

\* TemplateDeployer.get_resource_dependencies over the original template
\* with the logical ids keys, for its resource id.
get_resource_dependencies_text(keys, id, refNames, attNames, dependsOnValue) ==
    {other_id \in keys :
        /\ other_id # id
        /\ \/ IsSubstring(search1(other_id), dumped(refNames, attNames))
           \/ IsSubstring(search2(other_id), dumped(refNames, attNames))
           \/ in_depends_on(other_id, dependsOnValue)}

\* get_resource_dependencies called on its own.
GetResourceDependencies ==
    /\ ~depRun.called
    /\ \E keys \in {K \in SUBSET LogicalIds : Cardinality(K) \in 1..3} :
       \E id \in keys :
       \E refNames \in {T \in SUBSET LogicalIds : Cardinality(T) <= 1},
          attNames \in {T \in SUBSET LogicalIds : Cardinality(T) <= 1},
          dependsOnValue \in DependsOnValues :
          depRun' = [called |-> TRUE, keys |-> keys, id |-> id, refNames |-> refNames,
                     attNames |-> attNames, dependsOn |-> dependsOnValue,
                     result |-> get_resource_dependencies_text(keys, id, refNames,
                                                               attNames, dependsOnValue)]
    /\ UNCHANGED <<templateVars, callerVars, stackVars, serviceVars, loopVars, deleteVars,
                   runVars, planned, paramRun, invRun, mergeRun,
                   r53Run>>

\* The dependencies alone, on a new stack with the plain template.
DependencyInit == PlannerInit

DependencyNext == GetResourceDependencies

DependencySpec == DependencyInit /\ [][DependencyNext]_vars

\* ------------------------------------------------------- invoke_function

\* What one call of the service function does: it returns ("ok"), raises
\* botocore's ParamValidationError ("validation", with or without a report)
\* or raises another exception ("error"); marker tells whether the text of
\* the exception holds one of the not-found markers.  The text of a
\* validation failure is its report.
FunctionOutcomes ==
    {o \in [kind : {"ok", "validation", "error"}, report : BOOLEAN, marker : BOOLEAN] :
        /\ o.kind # "validation" => ~o.report
        /\ o.kind = "ok" => ~o.marker
        /\ (o.kind = "validation" /\ o.marker) => o.report}

\* How invoke_function ends on the exception exc: the outer except returns
\* None for a delete whose exception is a not-found one, and re-raises
\* every other exception.
invoke_function_except(action_name, exc) ==
    IF action_name = ACTION_DELETE /\ exc.marker
    THEN [result |-> "None", exc |-> exc]
    ELSE [result |-> "raised", exc |-> exc]

\* An invoke_function that calls again after every validation failure.
invoke_function_calls_Always(action_name, first, second) ==
    IF first.kind = "ok"
    THEN [calls |-> <<"params">>, result |-> "result", exc |-> first]
    ELSE IF first.kind = "validation"
    THEN (IF second.kind = "ok"
          THEN [calls |-> <<"params", "converted_params">>, result |-> "result",
                exc |-> second]
          ELSE [calls |-> <<"params", "converted_params">>]
                   @@ invoke_function_except(action_name, second))
    ELSE [calls |-> <<"params">>] @@ invoke_function_except(action_name, first)

\* invoke_function: the parameters of the calls it makes of the service
\* function, whose first call does first and whose second call does second,
\* and how it ends.
invoke_function_calls(action_name, first, second) ==
    IF first.kind = "ok"
    THEN [calls |-> <<"params">>, result |-> "result", exc |-> first]
    ELSE IF first.kind = "validation" /\ first.report
    THEN (IF second.kind = "ok"
          THEN [calls |-> <<"params", "converted_params">>, result |-> "result",
                exc |-> second]
          ELSE [calls |-> <<"params", "converted_params">>]
                   @@ invoke_function_except(action_name, second))
    ELSE [calls |-> <<"params">>] @@ invoke_function_except(action_name, first)

\* invoke_function called on its own.
InvokeFunction ==
    /\ ~invRun.called
    /\ \E action_name \in {ACTION_CREATE, ACTION_UPDATE, ACTION_DELETE},
          first \in FunctionOutcomes, second \in FunctionOutcomes :
          invRun' = [called |-> TRUE, action_name |-> action_name, first |-> first,
                     second |-> second]
                        @@ invoke_function_calls(action_name, first, second)
    /\ UNCHANGED <<templateVars, callerVars, stackVars, serviceVars, loopVars, deleteVars,
                   runVars, planned, paramRun, depRun, mergeRun,
                   r53Run>>

\* invoke_function alone, on a new stack with the plain template.
InvokeInit == PlannerInit

InvokeNext == InvokeFunction

InvokeSpec == InvokeInit /\ [][InvokeNext]_vars

\* ------------------------------------------------------ merge_properties

\* The keys of a resource other than Properties, and the keys of its
\* Properties.
ResourceKeys == {"Type", "Condition"}
PropertyKeys == {"p", "q"}

\* A resource of a template: the value of each of its keys (Absent when it
\* lacks the key, None, or a string), whether it has Properties, and the
\* value of each property.
Resources(values) ==
    {res \in [keys : [ResourceKeys -> values \cup {Absent} \cup {Str(x) : x \in ParameterStrings}],
              hasProps : BOOLEAN,
              props : [PropertyKeys -> {Absent} \cup {Str(x) : x \in ParameterStrings}]] :
        ~res.hasProps => \A k \in PropertyKeys : res.props[k] = Absent}

\* A merge_properties in which the keys of the new resource overwrite those
\* of the old.
merge_properties_Overwrite(old_resource, new_resource) ==
    [keys |-> [k \in ResourceKeys |->
                 IF new_resource.keys[k] # Absent THEN new_resource.keys[k]
                 ELSE old_resource.keys[k]],
     hasProps |-> TRUE,
     props |-> [k \in PropertyKeys |->
                  IF new_resource.props[k] # Absent THEN new_resource.props[k]
                  ELSE old_resource.props[k]]]

\* TemplateDeployer.merge_properties, the old resource it leaves: a key of
\* the new resource other than Properties is set to old_resource.get(key,
\* value), and each key of the new Properties is assigned.
merge_properties(old_resource, new_resource) ==
    [keys |-> [k \in ResourceKeys |->
                 IF new_resource.keys[k] = Absent \/ old_resource.keys[k] # Absent
                 THEN old_resource.keys[k]
                 ELSE new_resource.keys[k]],
     hasProps |-> TRUE,
     props |-> [k \in PropertyKeys |->
                  IF new_resource.props[k] # Absent THEN new_resource.props[k]
                  ELSE old_resource.props[k]]]

\* merge_properties called on its own; construct_changes has given the new
\* resource its Properties.  The entries of template_original are opaque.
MergeProperties ==
    /\ ~mergeRun.called
    /\ \E old_resource \in Resources({NoneValue}), new_resource \in Resources({}),
          old_original \in {Absent, Str("a"), Str("b")},
          new_original \in {Str("a"), Str("b")} :
          /\ new_resource.hasProps
          /\ mergeRun' = [called |-> TRUE, old |-> old_resource, new |-> new_resource,
                          old_original |-> old_original, new_original |-> new_original,
                          merged |-> merge_properties(old_resource, new_resource),
                          template_original |-> new_original]
    /\ UNCHANGED <<templateVars, callerVars, stackVars, serviceVars, loopVars, deleteVars,
                   runVars, planned, paramRun, depRun, invRun,
                   r53Run>>

\* merge_properties alone, on a new stack with the plain template.
MergeInit == PlannerInit

MergeNext == MergeProperties

MergeSpec == MergeInit /\ [][MergeNext]_vars

\* ------------------------------------------- Route53RecordSetProvider

\* "not value": the key is missing, or holds None or the empty string.
Falsy(v) == v \in {Absent, NoneValue, Str("")}

\* The hosted zones of the account, the desired states of a record set and
\* the answers of list_hosted_zones_by_name: up to three zones.
ZoneIds == {Str("Z1"), Str("Z2")}
DesiredStates ==
    [HostedZoneId : {Absent, Str("")} \cup ZoneIds,
     HostedZoneName : {Absent, Str(""), Str("zone.")},
     Name : {Str("a"), Str("b")},
     records : {"ResourceRecords", "AliasTarget", "neither"},
     TTL : {"absent", "int", "digits", "text"}]
ZoneLists == UNION {[1..n -> ZoneIds] : n \in 0..3}

\* A get_hosted_zone_id_from_name that takes the first zone of the answer.
get_hosted_zone_id_from_name_First(hosted_zone_name, zones) ==
    IF Falsy(hosted_zone_name) THEN [raised |-> TRUE, lookups |-> 0, id |-> Absent]
    ELSE IF Len(zones) = 0 THEN [raised |-> TRUE, lookups |-> 1, id |-> Absent]
    ELSE [raised |-> FALSE, lookups |-> 1, id |-> zones[1]]

\* Route53RecordSetProvider.get_hosted_zone_id_from_name, where
\* list_hosted_zones_by_name answers zones: whether it raises, the lookups it
\* makes, and the id it returns.
get_hosted_zone_id_from_name(hosted_zone_name, zones) ==
    IF Falsy(hosted_zone_name) THEN [raised |-> TRUE, lookups |-> 0, id |-> Absent]
    ELSE IF Len(zones) # 1 THEN [raised |-> TRUE, lookups |-> 1, id |-> Absent]
    ELSE [raised |-> FALSE, lookups |-> 1, id |-> zones[1]]

\* Route53RecordSetProvider.create on the desired state model, where
\* change_resource_record_sets does changeOutcome: the lookups and the changes
\* it sends, how it ends, and the HostedZoneId and Id it leaves in the model.
\* Without AliasTarget the comprehension over attrs["ResourceRecords"] raises
\* when the key is missing; int() raises on a TTL that is no number.
create(model, zones, changeOutcome) ==
    LET lookup == IF Falsy(model.HostedZoneId)
                  THEN get_hosted_zone_id_from_name(model.HostedZoneName, zones)
                  ELSE [raised |-> FALSE, lookups |-> 0, id |-> model.HostedZoneId]
        change == [Action |-> "UPSERT", HostedZoneId |-> lookup.id, Name |-> model.Name]
    IN  IF lookup.raised
        THEN [lookups |-> lookup.lookups, changes |-> <<>>, result |-> "raised",
              HostedZoneId |-> model.HostedZoneId, Id |-> Absent]
        ELSE IF model.records = "neither" \/ model.TTL = "text"
        THEN [lookups |-> lookup.lookups, changes |-> <<>>, result |-> "raised",
              HostedZoneId |-> lookup.id, Id |-> Absent]
        ELSE IF changeOutcome # "ok"
        THEN [lookups |-> lookup.lookups, changes |-> <<change>>, result |-> "raised",
              HostedZoneId |-> lookup.id, Id |-> Absent]
        ELSE [lookups |-> lookup.lookups, changes |-> <<change>>, result |-> "SUCCESS",
              HostedZoneId |-> lookup.id, Id |-> model.Name]

\* Route53RecordSetProvider.create called on its own.
Route53Create ==
    /\ ~r53Run.called
    /\ \E model \in DesiredStates, zones \in ZoneLists, changeOutcome \in {"ok", "error"} :
          r53Run' = [called |-> TRUE, model |-> model, zones |-> zones,
                     changeOutcome |-> changeOutcome,
                     out |-> create(model, zones, changeOutcome)]
    /\ UNCHANGED <<templateVars, callerVars, stackVars, serviceVars, loopVars, deleteVars,
                   runVars, planned, paramRun, depRun, invRun, mergeRun>>

\* The provider alone, on a new stack with the plain template.
Route53Init == PlannerInit

Route53Next == Route53Create

Route53Spec == Route53Init /\ [][Route53Next]_vars

\* Templates in which one output may have an Export whose Name is a Ref to a
\* resource; the choice counts as one of the scenario's deviations.
ExportInit ==
    /\ ScenarioInit
    /\ NewStack
    /\ NoImports
    /\ \/ NoExports
       \/ /\ devUsed < MaxDeviations
          /\ \E o \in template, t \in Ids :
                exportName = [r \in Ids |-> IF r = o THEN t ELSE NoId]

ExportSpec == ExportInit /\ [][Next]_vars

\* Templates in which one resource may have a property that imports a value,
\* of a name the exports map holds or lacks; the choice counts as one of the
\* scenario's deviations.
ImportInit ==
    /\ ScenarioInit
    /\ NewStack
    /\ NoExports
    /\ \/ NoImports
       \/ /\ devUsed < MaxDeviations
          /\ \E i \in template, kind \in {"missing", "present"} :
                imports = [r \in Ids |-> IF r = i THEN kind ELSE "none"]

ImportSpec == ImportInit /\ [][Next]_vars

\* ------------------------------------------------------------------ claims

\* The work do_apply_changes_in_loop has left: the passes it may still make,
\* then the changes of the list and the part of the pass not yet visited.
LoopRank ==
    (max_iters - iter) * (2 * Cardinality(Ids) + 2) + 2 * Len(changes) - j + 1

\* C1: do_apply_changes_in_loop terminates after at most max_iters (30)
\* passes over the change list, and the pending list never grows: each step
\* of a pass removes the current change (applied or dropped) or advances
\* past it, so every step of the loop lowers LoopRank, which is never
\* negative, and a step that leaves the loop records how it ended.
C1_LoopTerminates ==
    [][pc = "loop" =>
          /\ iter < max_iters
          /\ j <= Len(changes) + 1
          /\ Len(changes') <= Len(changes)
          /\ (j <= Len(changes) /\ pc' = "loop") =>
                \/ Len(changes') = Len(changes) - 1 /\ j' = j
                \/ changes' = changes /\ j' = j + 1
          /\ (pc' = "loop") => (LoopRank' < LoopRank /\ LoopRank' >= 0)
          /\ (pc' # "loop") => (loopResult' # "none")]_vars

\* C1 witness: the end of the 30th pass with a change still pending.
C1_Witness ==
    /\ pc = "loop"
    /\ iter = max_iters - 1
    /\ j > Len(changes)
    /\ changes # <<>>
    /\ Len(changesDone) = max_iters

\* The step applies the change of resource s: apply_change returned and the
\* change was appended to changes_done.
AppliedNow(s) ==
    /\ pc = "loop"
    /\ Len(changesDone') = Len(changesDone) + 1
    /\ changesDone'[Len(changesDone')].LogicalResourceId = s

\* C2: for every resource S whose definition references a resource R via
\* Ref / Fn::GetAtt, whenever the loop applies S's action the status of R is
\* a *_COMPLETE status, whatever the kind of S's change and whether or not a
\* change of R is pending.
C2_RefTargetCompleteWhenApplied ==
    [][\A s \in Ids :
         AppliedNow(s) => \A r \in refs[s] : resStatus[r] \in CompleteStatuses]_vars

\* The run of an entry point that started the deployment loop has ended.
LoopRunEnded ==
    /\ pc = "idle"
    /\ entry \in {"deploy_stack", "apply_change_set", "update_stack"}
    /\ raised = "none"

\* The resources of the run's plan: those of the old and of the new template.
PlanResources ==
    template \cup {changesDone[k].LogicalResourceId : k \in 1..Len(changesDone)}

\* The ids a resource names by Ref / Fn::GetAtt or DependsOn.
Named(s) == refs[s] \cup dependsOn[s]

\* No cycle of references among the resources of S: they can be taken away
\* one layer of unreferencing resources after the other.
RECURSIVE Acyclic(_)
Acyclic(S) ==
    LET free == {s \in S : Named(s) \cap S = {}}
    IN  IF S = {} THEN TRUE
        ELSE IF free = {} THEN FALSE
        ELSE Acyclic(S \ free)

AllCallsSucceed == \A r \in Ids : outcome[r] = "ok"

C4_RunEndsInTerminalStatus ==
    (pc = "idle" /\ entry # "none") => status \in {Complete(action), Failed(action)}

\* do_apply_changes_in_loop raised an exception other than
\* DependencyNotYetSatisfied, and _run has ended.
LoopFailed == pc = "idle" /\ loopResult \in {"error", "no_progress"}

\* C5 as stated: when the deployment loop fails with an exception other than
\* DependencyNotYetSatisfied, the stack status is set to <ACTION>_FAILED of
\* the running action and the exception propagates out of the run.
C5_LoopFailureReraised_AsStated ==
    LoopFailed => (status = Failed(action) /\ workerExc = "Exception")

\* C5, amended: when the deployment loop fails with an exception other than
\* DependencyNotYetSatisfied, the stack status (and the status of an
\* executed change set, with ExecutionStatus EXECUTE_FAILED) is set to
\* <ACTION>_FAILED of the running action, and the exception is caught in
\* _run: no exception leaves the run.
C5_LoopFailureSetsFailed ==
    LoopFailed =>
        /\ status = Failed(action)
        /\ workerExc = "none"
        /\ isChangeSet => (csStatus = Failed(action) /\ csExecStatus = "EXECUTE_FAILED")

\* C5 witness: the run of a change set ended after a service call raised.
C5_Witness ==
    /\ LoopFailed
    /\ loopResult = "error"
    /\ isChangeSet
    /\ status \in FailedStatuses

\* The step is a call of apply_change_set.
CallsApplyChangeSet == runs' = runs + 1 /\ entry' = "apply_change_set"

\* The change set's diff against the stack is empty: the same resources with
\* the same property values, none of them with a DELETE status.
EmptyDiff ==
    /\ newTemplate' = template
    /\ props' = props
    /\ \A r \in template :
          resStatus[r] \notin {"DELETE_IN_PROGRESS", "DELETE_COMPLETE", "DELETE_FAILED"}

\* C6 as stated: when apply_change_set is called with a change set whose
\* diff against the stack is empty, NoStackUpdates is raised and the stack
\* status after the call equals the stack status before the call.
C6_EmptyChangeSetKeepsStatus_AsStated ==
    [][(CallsApplyChangeSet /\ EmptyDiff)
          => (raised' = "NoStackUpdates" /\ status' = status)]_vars

\* C6, amended: when apply_change_set is called with a change set whose diff
\* against the stack is empty, NoStackUpdates is raised, no worker is
\* started and nothing is deployed, and the stack status and the change
\* set's Status are set to <ACTION>_FAILED, where ACTION is UPDATE for a
\* stack that was CREATE_COMPLETE or UPDATE_COMPLETE and CREATE otherwise.
C6_EmptyChangeSetSetsFailed ==
    [][(CallsApplyChangeSet /\ EmptyDiff)
          => LET act == IF status \in {"CREATE_COMPLETE", "UPDATE_COMPLETE"}
                        THEN "UPDATE" ELSE "CREATE"
             IN  /\ raised' = "NoStackUpdates"
                 /\ status' = Failed(act)
                 /\ csStatus' = Failed(act)
                 /\ pc' = "idle"
                 /\ UNCHANGED <<deployed, physId, template, cond, outputs>>]_vars

\* C6 witness: a deployed stack right after an empty change set was executed.
C6_Witness ==
    /\ pc = "idle"
    /\ entry = "apply_change_set"
    /\ raised = "NoStackUpdates"
    /\ status = "UPDATE_FAILED"
    /\ \E r \in template : deployed[r] # NoId

\* A service call of the current run for resource r.
CalledFor(r) == \E op \in {ACTION_CREATE, ACTION_UPDATE, ACTION_DELETE} : <<r, op>> \in calls

\* C7: for every resource whose Condition evaluates to false, the run (the
\* deployment loop, delete_stack) makes no create, update or delete call for
\* it, and once the loop has resolved the outputs, the output that references
\* it is null.
C7_FalseConditionNoCallNullOutput ==
    \A r \in template :
        ~evaluate_resource_condition(r) =>
            /\ ~CalledFor(r)
            /\ (pc = "idle" /\ loopResult = "ok" /\ r \in outputs)
                  => resolvedOutputs[r] = NoId

\* The part of C7 about service calls alone.
C7_FalseConditionNoCall ==
    \A r \in template : ~evaluate_resource_condition(r) => ~CalledFor(r)

\* C8: an action the engine applies to a resource finds the resource in
\* <ACTION>_IN_PROGRESS of that action and leaves it in <ACTION>_COMPLETE or
\* <ACTION>_FAILED of that action; no resource comes to an <ACTION>_COMPLETE
\* status from another status than <ACTION>_IN_PROGRESS of the same action.
C8_ResourceStatusSameAction ==
    [][/\ (InLoop /\ changesDone' # changesDone) =>
              LET r == changes[j].LogicalResourceId
                  a == get_action_name_for_resource_change(changes[j].Action)
              IN  /\ resStatus[r] = InProgress(a)
                  /\ resStatus'[r] \in {Complete(a), Failed(a)}
       /\ \A r \in Ids : \A a \in {"CREATE", "UPDATE", "DELETE"} :
              (resStatus'[r] = Complete(a) /\ resStatus[r] # Complete(a))
                  => resStatus[r] = InProgress(a)]_vars

\* The run ended because the create action of changes[j] raised an exception
\* other than DependencyNotYetSatisfied.
CreateFailed ==
    /\ pc = "idle"
    /\ loopResult = "error"
    /\ j <= Len(changes)
    /\ prepare_should_deploy_change(changes[j]) = "true"
    /\ ServiceAction(changes[j]) = ACTION_CREATE
    /\ MakesCall(changes[j].LogicalResourceId)
    /\ outcome[changes[j].LogicalResourceId] = "error"

\* C9: when the create action of a resource fails with an error that is no
\* dependency deferral while the stack is created, the stack ends in
\* CREATE_FAILED and the resource ends in CREATE_FAILED.
C9_FailedCreateSetsCreateFailed ==
    (CreateFailed /\ action = "CREATE") =>
        /\ status = "CREATE_FAILED"
        /\ resStatus[changes[j].LogicalResourceId] = "CREATE_FAILED"

\* The part of C9 about the stack alone.
C9_FailedCreateStackFailed ==
    (CreateFailed /\ action = "CREATE") => status = "CREATE_FAILED"

\* C10: once a resource action has raised an exception other than
\* DependencyNotYetSatisfied, the run applies nothing more: the pending
\* changes stay pending, no further service call is made, and the changes
\* applied before keep their <ACTION>_COMPLETE status, their physical ids and
\* what the service holds for them.
C10_FailureAbortsWithoutRollback ==
    [][(loopResult' = "error" /\ runs' = runs) =>
          /\ UNCHANGED <<changes, changesDone, deployed, physId, resStatus>>
          /\ loopResult = "error" => calls' = calls
          /\ pc' # "loop"
          /\ \A k \in 1..Len(changesDone) :
                resStatus'[changesDone[k].LogicalResourceId] =
                    Complete(get_action_name_for_resource_change(changesDone[k].Action))]_vars

\* A run that ended on a failed action after it had applied a change, with a
\* change still pending behind the failed one.
C10_Witness ==
    /\ pc = "idle"
    /\ loopResult = "error"
    /\ status \in FailedStatuses
    /\ changesDone # <<>>
    /\ j < Len(changes)
    /\ StepOutcome(changes[j + 1]) = "apply"

\* delete_stack has returned after setting DELETE_COMPLETE.
DeleteStackDone == entry = "delete_stack" /\ pc = "idle" /\ status = "DELETE_COMPLETE"

\* C11: once delete_stack has set the stack to DELETE_COMPLETE, every resource
\* of the stack has status DELETE_COMPLETE or had its delete failure logged
\* in the final cycle.
C11_DeleteCompleteness ==
    DeleteStackDone =>
        \A r \in template : resStatus[r] = "DELETE_COMPLETE" \/ r \in loggedFinal

\* C12: delete_stack makes at most max_cycle cycles; a cycle works on
\* resources that are not DELETE_COMPLETE only and calls delete for no other
\* resource; a further cycle follows only while a resource is left and the
\* cap is not reached; delete_stack ends with DELETE_COMPLETE and without an
\* exception for its caller, whatever the delete calls raised.
C12_DeleteStackBounded ==
    [][pc = "delete" =>
          /\ cycle \in 1..max_cycle
          /\ \A r \in delRes : resStatus[r] # "DELETE_COMPLETE"
          /\ \A r \in Ids : (<<r, ACTION_DELETE>> \in calls' \ calls) => r \in delRes
          /\ pc' = "delete" =>
                /\ cycle' = cycle + 1
                /\ cycle' <= max_cycle
                /\ delRes' # {}
                /\ delRes' \subseteq delRes
          /\ (\A r \in delRes : resStatus'[r] = "DELETE_COMPLETE") => pc' = "idle"
          /\ pc' # "delete" =>
                /\ pc' = "idle"
                /\ status' = "DELETE_COMPLETE"
                /\ raised' = "none"
                /\ workerExc' = "none"]_vars

\* delete_stack has made all its cycles: a delete that failed in each of them
\* was logged as final, next to a resource that was deleted.
C12_Witness ==
    /\ DeleteStackDone
    /\ cycle = max_cycle
    /\ raised = "none"
    /\ loggedFinal # {}
    /\ \E r \in template : <<r, ACTION_DELETE>> \in calls /\ resStatus[r] = "DELETE_COMPLETE"

\* The step about to be taken calls the delete action of resource r: the
\* Remove at changes[j] in the loop, or a cycle of delete_stack.
DeleteCalledOn(r) ==
    \/ /\ InLoop
       /\ changes[j].LogicalResourceId = r
       /\ changes[j].Action = "Remove"
       /\ prepare_should_deploy_change(changes[j]) = "true"
       /\ MakesCall(r)
    \/ /\ pc = "delete"
       /\ r \in delRes
       /\ evaluate_resource_condition(r)
       /\ MakesCall(r)

\* The step about to be taken calls the create action of resource r.
CreateCalledOn(r) ==
    /\ InLoop
    /\ changes[j].LogicalResourceId = r
    /\ ServiceAction(changes[j]) = ACTION_CREATE
    /\ prepare_should_deploy_change(changes[j]) = "true"
    /\ all_resource_dependencies_satisfied(r)
    /\ MakesCall(r)

\* C13: a delete call that fails with a not-found error is swallowed and the
\* resource moves to DELETE_COMPLETE, whether the descriptor names a client
\* method or holds a callable; a delete that fails without a marker leaves
\* the resource as it is, and a failing create leaves the loop.
C13_NotFoundDeleteSwallowed ==
    [][\A r \in Ids :
          /\ (DeleteCalledOn(r) /\ check_not_found_exception(r))
                => (resStatus'[r] = "DELETE_COMPLETE" /\ pc' # "raising")
          /\ (DeleteCalledOn(r) /\ outcome[r] = "error")
                => resStatus'[r] = resStatus[r]
          /\ (CreateCalledOn(r) /\ outcome[r] \in {"error", "notfound"})
                => (pc' = "raising" /\ resStatus'[r] = resStatus[r])]_vars

\* C14: when deploy_stack runs on a stack again, the Add of a resource that
\* is already deployed is dropped without a create call, and through the
\* whole run every deployed resource keeps its PhysicalResourceId and what
\* the service holds for it.
C14_IdempotentAdd ==
    [][/\ (entry' = "deploy_stack" /\ runs' = runs + 1) => physId' = physId
       /\ (entry = "deploy_stack" /\ pc \in {"loop", "raising"}) =>
              \A r \in Ids : is_deployed(r) =>
                 /\ physId'[r] = physId[r]
                 /\ deployed'[r] = deployed[r]
       /\ (entry = "deploy_stack" /\ InLoop) =>
              LET c == changes[j]
                  r == c.LogicalResourceId
              IN  (c.Action = "Add" /\ is_deployed(r)) =>
                     /\ changes' = RemoveAt(changes, j)
                     /\ changesDone' = changesDone
                     /\ calls' = calls
                     /\ <<r, ACTION_CREATE>> \notin calls']_vars

\* The second deploy_stack on a stack whose resources the first one deployed
\* has ended, and has made no service call.
C14_Witness ==
    /\ entry = "deploy_stack"
    /\ runs = 2
    /\ pc = "idle"
    /\ loopResult = "ok"
    /\ calls = {}
    /\ template # {}
    /\ \A r \in template : deployed[r] = 1 /\ physId[r] = 1

\* The step taken is the end of a loop that had removed resource r.
RemovedAtLoopExit(r) ==
    /\ PassDone
    /\ pc' = "idle"
    /\ \E k \in 1..Len(changesDone) :
          changesDone[k].Action = "Remove" /\ changesDone[k].LogicalResourceId = r

\* C15: a PhysicalResourceId that is assigned is never changed; it is cleared
\* only with the resource, when the loop that removed the resource ends.  An
\* Add or Modify that is applied to such a resource writes the value it had.
C15_PhysicalIdStable ==
    [][\A r \in Ids :
          physId[r] # NoId =>
             \/ physId'[r] = physId[r]
             \/ (RemovedAtLoopExit(r) /\ physId'[r] = NoId /\ r \notin template')]_vars

\* A Modify was applied, with an update call, to a resource that an earlier
\* run had given its PhysicalResourceId.
C15_Witness ==
    /\ runs = 2
    /\ \E k \in 1..Len(changesDone) :
          /\ changesDone[k].Action = "Modify"
          /\ <<changesDone[k].LogicalResourceId, ACTION_UPDATE>> \in calls
          /\ physId[changesDone[k].LogicalResourceId] = 1

\* The ids of the changes of plan with action a.
PlanIds(plan, a) == {plan[k].LogicalResourceId : k \in {m \in 1..Len(plan) : plan[m].Action = a}}

\* Remove before Add before Modify.
ActionRank(a) == CASE a = "Remove" -> 1 [] a = "Add" -> 2 [] a = "Modify" -> 3

\* C16: construct_changes returns one Remove per resource of old that is not
\* in new, one Add per resource of new that is not in old (per resource of
\* new when initialize is set), one Modify per resource in both (none when
\* initialize is set), in that order and nothing else, so no logical id has
\* two changes; filter_unchanged_resources omits exactly the Modifies whose
\* configuration does not differ.
C16_ConstructChangesExact ==
    LET p == planned
        plan == p.changes
        both == IF p.initialize THEN {} ELSE p.new \cap p.old
    IN  /\ PlanIds(plan, "Remove") = p.old \ p.new
        /\ PlanIds(plan, "Add") = IF p.initialize THEN p.new ELSE p.new \ p.old
        /\ PlanIds(plan, "Modify") =
              IF p.filter_unchanged_resources THEN both \cap p.differs ELSE both
        /\ \A k \in 1..Len(plan) : plan[k].Action \in {"Remove", "Add", "Modify"}
        /\ \A k, m \in 1..Len(plan) :
              k < m => /\ ActionRank(plan[k].Action) <= ActionRank(plan[m].Action)
                       /\ plan[k].LogicalResourceId # plan[m].LogicalResourceId

\* A plan with a Remove and a Modify, made with the filter set, from which
\* the Modify of an unchanged resource was left out.
C16_Witness ==
    /\ planned.filter_unchanged_resources
    /\ ~planned.initialize
    /\ PlanIds(planned.changes, "Remove") # {}
    /\ PlanIds(planned.changes, "Modify") # {}
    /\ (planned.new \cap planned.old) \ planned.differs # {}

\* The step taken is a call of an entry point that goes through apply_changes.
CallsApplyChanges ==
    runs' = runs + 1 /\ entry' \in {"deploy_stack", "apply_change_set", "update_stack"}

\* The plan of the call holds a Remove, an Add, or a Modify of a resource
\* whose properties differ or whose status before the call names DELETE.
PlanHasChanges ==
    LET initialize == entry' = "deploy_stack"
    IN  \/ template \ newTemplate' # {}
        \/ (IF initialize THEN newTemplate' ELSE newTemplate' \ template) # {}
        \/ /\ ~initialize
           /\ \E r \in newTemplate' \cap template :
                 \/ props'[r] # props[r]
                 \/ resStatus[r] \in {"DELETE_IN_PROGRESS", "DELETE_COMPLETE", "DELETE_FAILED"}

\* C17: apply_changes raises NoStackUpdates exactly when the plan holds no
\* Remove, no Add and no Modify whose configuration differs; it then starts no
\* worker and no resource action runs; otherwise the worker is started.
C17_NoStackUpdatesExactly ==
    [][/\ CallsApplyChanges =>
              /\ (raised' = "NoStackUpdates") <=> ~PlanHasChanges
              /\ raised' = "NoStackUpdates" =>
                    (pc' = "idle" /\ changes' = <<>> /\ calls' = {} /\ deployed' = deployed)
              /\ raised' # "NoStackUpdates" => (raised' = "none" /\ pc' = "loop")
       /\ (raised = "NoStackUpdates" /\ runs' = runs) =>
              UNCHANGED <<calls, deployed, resStatus, physId>>]_vars

\* An update of a deployed stack with the template it has raised
\* NoStackUpdates: nothing is running and no call was made.
C17_Witness ==
    /\ entry = "update_stack"
    /\ raised = "NoStackUpdates"
    /\ pc = "idle"
    /\ calls = {}
    /\ \E r \in template : is_deployed(r)

\* The loop is at a Modify whose resource has a true Condition and
\* references that resolve.
AtModify ==
    /\ InLoop
    /\ changes[j].Action = "Modify"
    /\ evaluate_resource_condition(changes[j].LogicalResourceId)
    /\ resolve_refs_recursively(changes[j].LogicalResourceId) = "ok"

\* The step taken drops changes[j]: no call, nothing applied.
DropsChange ==
    /\ changes' = RemoveAt(changes, j)
    /\ changesDone' = changesDone
    /\ calls' = calls
    /\ deployed' = deployed

\* C18 as stated: a Modify is applied only to a resource that is deployable,
\* deployed and updatable, and is dropped without a service call otherwise.
C18_ModifyOnlyWhenUpdatable_AsStated ==
    [][AtModify =>
          LET r == changes[j].LogicalResourceId
              fit == is_deployable_resource(r) /\ is_deployed(r) /\ updatable[r]
          IN  /\ changesDone' # changesDone => fit
              /\ ~fit => DropsChange]_vars

\* C18, amended: an update call is made only for a resource that is
\* deployable, deployed and updatable; the Modify of a deployed resource that
\* is not updatable is dropped without a service call; the Modify of a
\* resource that is not deployed is never dropped and never updates: when it
\* leaves the list it was applied as a create, with a create call if the type
\* has a provider and with no call otherwise.
C18_ModifyUpdatesOrCreates ==
    [][/\ \A r \in Ids :
             <<r, ACTION_UPDATE>> \in calls' =>
                (is_deployable_resource(r) /\ is_deployed(r) /\ updatable[r])
       /\ AtModify =>
             LET r == changes[j].LogicalResourceId
             IN  /\ (is_deployed(r) /\ ~updatable[r]) => DropsChange
                 /\ ~is_deployed(r) =>
                       /\ <<r, ACTION_UPDATE>> \notin calls'
                       /\ Len(changes') < Len(changes) =>
                             /\ changesDone' = Append(changesDone, changes[j])
                             /\ IF MakesCall(r)
                                THEN <<r, ACTION_CREATE>> \in calls' /\ deployed'[r] # NoId
                                ELSE calls' = calls /\ deployed' = deployed]_vars

\* The Modify of a resource that was not deployed has been applied with a
\* create call, and the Modify of a deployed resource with an update call.
C18_Witness ==
    /\ \E k \in 1..Len(changesDone) :
          /\ changesDone[k].Action = "Modify"
          /\ <<changesDone[k].LogicalResourceId, ACTION_CREATE>> \in calls
    /\ \E k \in 1..Len(changesDone) :
          /\ changesDone[k].Action = "Modify"
          /\ <<changesDone[k].LogicalResourceId, ACTION_UPDATE>> \in calls

\* The changes of the current run that were applied to r.
DoneFor(r) == {k \in 1..Len(changesDone) : changesDone[k].LogicalResourceId = r}

\* The loop is at a change of a resource whose type has no provider, with a
\* true Condition and references that resolve.
AtNoProvider ==
    /\ InLoop
    /\ ~get_deployment_config(changes[j].LogicalResourceId)
    /\ evaluate_resource_condition(changes[j].LogicalResourceId)
    /\ resolve_refs_recursively(changes[j].LogicalResourceId) = "ok"

\* C19 as stated: no service call is made for a resource whose type has no
\* provider, none of its changes is applied, and nothing is logged for the
\* reserved type Parameter.
C19_NoProviderDropped_AsStated ==
    \A r \in Ids :
        ~get_deployment_config(r) =>
            /\ ~CalledFor(r)
            /\ DoneFor(r) = {}
            /\ rtype[r] = "Parameter" => r \notin warned

\* C19, amended: no service call is ever made for a resource whose type has
\* no provider and the service never holds it; its Add and its Remove are
\* dropped, and so is every change of the reserved type Parameter, for which
\* nothing is logged; the Modify of another type without provider stays in
\* the list or is applied without a call and recorded in changes_done; each
\* such step logs the missing provider and none raises, so the loop goes on.
C19_NoProviderSkipped ==
    [][/\ \A r \in Ids :
             ~get_deployment_config(r) =>
                /\ ~CalledFor(r)'
                /\ deployed'[r] = NoId
                /\ rtype[r] = "Parameter" => r \notin warned'
       /\ AtNoProvider =>
             LET c == changes[j]
                 r == c.LogicalResourceId
             IN  /\ pc' = "loop"
                 /\ calls' = calls /\ deployed' = deployed
                 /\ rtype[r] # "Parameter" => r \in warned'
                 /\ (c.Action \in {"Add", "Remove"} \/ rtype[r] = "Parameter") => DropsChange
                 /\ (c.Action = "Modify" /\ rtype[r] # "Parameter") =>
                       \/ changes' = changes /\ changesDone' = changesDone /\ j' = j + 1
                       \/ /\ changes' = RemoveAt(changes, j)
                          /\ changesDone' = Append(changesDone, c)
                          /\ resStatus'[r] = "UPDATE_COMPLETE"]_vars

\* A deployment has ended with CREATE_COMPLETE over a template that holds a
\* resource of a type without provider, a stack parameter and a resource
\* with a provider: the first was logged and skipped, the second skipped
\* without a log, the third deployed by a create call.
C19_Witness ==
    /\ pc = "idle"
    /\ status = "CREATE_COMPLETE"
    /\ loopResult = "ok"
    /\ \E u \in template, p \in template, k \in template :
          /\ rtype[u] = "Unknown" /\ cond[u] /\ u \in warned /\ ~CalledFor(u)
          /\ resStatus[u] = "CREATE_COMPLETE"
          /\ rtype[p] = "Parameter" /\ cond[p] /\ p \notin warned /\ ~CalledFor(p)
          /\ resStatus[p] = "CREATE_COMPLETE"
          /\ rtype[k] = "Known" /\ <<k, ACTION_CREATE>> \in calls /\ deployed[k] # NoId

\* C20: while a worker thread runs the deployment of a stack, a step of any
\* other thread leaves the stack's resources map and resource statuses as
\* they are.  The steps of the worker are those that move its loop or end it.
C20_OnlyWorkerMutates ==
    [][(WorkerRunning /\ UNCHANGED <<loopVars, pc>>) =>
          UNCHANGED <<template, props, physId, resStatus>>]_vars

\* apply_change_set has finished: the call has returned or raised, and the
\* worker thread it may have started has ended.
ChangeSetExecuted == pc = "idle" /\ entry = "apply_change_set"

\* C21: after apply_change_set has finished, whether it succeeded, failed in
\* the worker or failed before the worker was started, the change set's
\* ExecutionStatus is EXECUTE_COMPLETE when the stack ended in
\* <ACTION>_COMPLETE and EXECUTE_FAILED when it ended in <ACTION>_FAILED.
C21_ExecutionStatusReflectsFinal ==
    ChangeSetExecuted =>
        /\ status = Complete(action) => csExecStatus = "EXECUTE_COMPLETE"
        /\ status = Failed(action) => csExecStatus = "EXECUTE_FAILED"

\* The values the specification gives a change set's Status.
ChangeSetStatuses ==
    {"CREATE_PENDING", "CREATE_COMPLETE", "EXECUTE_IN_PROGRESS", "EXECUTE_COMPLETE",
     "EXECUTE_FAILED"}

\* C22: in every reachable state the change set's Status is one of
\* CREATE_PENDING, CREATE_COMPLETE, EXECUTE_IN_PROGRESS, EXECUTE_COMPLETE and
\* EXECUTE_FAILED; executing the change set stores no other value in it.
C22_ChangeSetStatusDomain == csStatus \in ChangeSetStatuses

\* The loop has made its last pass without raising: no change is left, or
\* max_iters passes were made.
LoopEnds == PassDone /\ (changes = <<>> \/ (updated /\ iter + 1 = max_iters))

\* C23: a failure while resolving one output (its Value or its Export name)
\* is swallowed: once the loop has ended without raising, the stack is set to
\* <ACTION>_COMPLETE, each output that resolves is recorded with its value and
\* each output that does not is recorded with null.
C23_OutputFailureSwallowed ==
    [][LoopEnds =>
          /\ pc' = "idle"
          /\ status' = Complete(action)
          /\ \A o \in outputs :
                resolvedOutputs'[o] =
                    IF resolve_ref(o, {}, template', physId') = "ok"
                    THEN (IF rtype[o] = "Parameter" THEN ParameterProps
                          ELSE get_ref_from_model(o, physId'))
                    ELSE NoId]_vars

\* An entry of the new stack or of its change set overrides key k: it is
\* submitted without UsePreviousValue.
Overridden(k) ==
    \/ paramRun.newEntries[k][1] = "entry" /\ ~paramRun.newEntries[k][3]
    \/ paramRun.csEntries[k][1] = "entry" /\ ~paramRun.csEntries[k][3]

\* C24: after apply_parameter_changes, a parameter declared in the new
\* template has the template's Default only when the stack had no value for
\* it, and a parameter the stack had a value for keeps that value, unless an
\* entry submitted without UsePreviousValue overrides it.
C24_DefaultOnlyWithoutValue ==
    paramRun.called =>
        \A k \in ParameterKeys :
            (~Overridden(k) /\ paramRun.old[k] # Absent) =>
                paramRun.parameters[k] = paramRun.old[k]

\* Key k has an entry submitted with UsePreviousValue = true and no entry
\* submitted without it.
UsesPreviousValue(k) ==
    /\ ~Overridden(k)
    /\ \/ paramRun.newEntries[k][1] = "entry"
       \/ paramRun.csEntries[k][1] = "entry"

\* C25: a parameter entry submitted with UsePreviousValue = true does not
\* change the value: after apply_parameter_changes the stack's value for a
\* key it had a value for is the value it had before the call.
C25_UsePreviousValueKeeps ==
    paramRun.called =>
        \A k \in ParameterKeys :
            (UsesPreviousValue(k) /\ paramRun.old[k] # Absent) =>
                paramRun.parameters[k] = paramRun.old[k]

\* The loop is at a change of a resource with a true Condition, one of whose
\* properties imports a name the exports map lacks, and whose Refs resolve.
AtMissingImport ==
    /\ InLoop
    /\ imports[changes[j].LogicalResourceId] = "missing"
    /\ evaluate_resource_condition(changes[j].LogicalResourceId)
    /\ \A t \in refs[changes[j].LogicalResourceId] :
          resolve_ref(t, {changes[j].LogicalResourceId}, template, physId) = "ok"

\* C26: Fn::ImportValue of a name the exports map lacks resolves to null; it
\* neither raises nor defers: preparing the change of the importing resource
\* returns, and the Add of a deployable resource that is not deployed, whose
\* dependencies are satisfied and whose create call succeeds, is applied in
\* that very step.
C26_MissingImportIsNull ==
    [][AtMissingImport =>
          LET c == changes[j]
              r == c.LogicalResourceId
          IN  /\ import_value(r) = NoId
              /\ prepare_should_deploy_change(c) \in {"true", "false"}
              /\ ( /\ c.Action = "Add"
                   /\ is_deployable_resource(r) /\ ~is_deployed(r)
                   /\ all_resource_dependencies_satisfied(r)
                   /\ outcome[r] = "ok" ) =>
                     /\ changes' = RemoveAt(changes, j)
                     /\ changesDone' = Append(changesDone, c)
                     /\ <<r, ACTION_CREATE>> \in calls'
                     /\ deployed'[r] # NoId
                     /\ pc' = "loop"]_vars

\* A deployment has ended with CREATE_COMPLETE after a single pass, and it
\* created a resource that imports a name the exports map lacks.
C26_Witness ==
    /\ pc = "idle"
    /\ status = "CREATE_COMPLETE"
    /\ iter = 0
    /\ \E r \in template :
          /\ imports[r] = "missing"
          /\ import_value(r) = NoId
          /\ <<r, ACTION_CREATE>> \in calls
          /\ deployed[r] # NoId
          /\ DoneFor(r) # {}

\* C27: at the end of a pass over the pending changes, an empty list ends
\* the loop without error; a non-empty list after a pass without progress
\* makes the loop raise; a non-empty list after a pass with progress starts
\* the next pass at the first pending change, as long as fewer than max_iters
\* passes were made.
C27_EndOfPass ==
    [][PassDone =>
          /\ changes = <<>> =>
                /\ pc' = "idle"
                /\ loopResult' = "ok"
                /\ workerExc' = workerExc
                /\ status' = Complete(action)
          /\ (changes # <<>> /\ ~updated) =>
                /\ pc' = "raising"
                /\ workerExc' = "Exception"
                /\ loopResult' = "no_progress"
                /\ UNCHANGED loopVars
          /\ (changes # <<>> /\ updated /\ iter + 1 < max_iters) =>
                /\ pc' = "loop"
                /\ iter' = iter + 1
                /\ j' = 1
                /\ ~updated'
                /\ UNCHANGED <<changes, changesDone, workerExc, status>>]_vars

\* A deployment has ended without error after more than one pass: a pass
\* with progress left changes pending, the next pass started, and a later
\* pass ended with an empty list.
C27_Witness ==
    /\ pc = "idle"
    /\ loopResult = "ok"
    /\ iter >= 1
    /\ changes = <<>>
    /\ Len(changesDone) >= 2
    /\ status = Complete(action)

\* C28: a step of the loop at a pending change (Add, Modify or Remove) of a
\* resource whose Condition evaluates to false drops the change from the
\* pending list and sets the status of the resource to <ACTION>_COMPLETE for
\* the action of the change.
C28_FalseConditionDropped ==
    [][(InLoop /\ ~evaluate_resource_condition(changes[j].LogicalResourceId)) =>
          /\ changes' = RemoveAt(changes, j)
          /\ changesDone' = changesDone
          /\ resStatus'[changes[j].LogicalResourceId] =
                Complete(get_action_name_for_resource_change(changes[j].Action))]_vars

\* C29: get_resource_dependencies returns exactly the other logical ids of
\* the template that the resource's original value references through Ref or
\* Fn::GetAtt, together with those its DependsOn names, be it a string or a
\* list of strings: none is missing and no other id is included.
C29_DependenciesExact ==
    depRun.called =>
        depRun.result =
            {x \in depRun.keys :
                /\ x # depRun.id
                /\ x \in depRun.refNames \cup depRun.attNames \cup depRun.dependsOn.names}

\* invoke_function retried: the first call raised a validation failure that
\* carries a report.
Retried == invRun.first.kind = "validation" /\ invRun.first.report

\* What the last call of the service function did.
LastOutcome == IF Retried THEN invRun.second ELSE invRun.first

\* C30 as stated: invoke_function calls the service function at most twice;
\* it calls it a second time, with the corrected parameters, exactly after a
\* validation failure that carries a report; the failure of the retry, and a
\* validation failure without a report, are raised to the caller.
C30_RetryOnce_AsStated ==
    invRun.called =>
        /\ Len(invRun.calls) <= 2
        /\ invRun.calls = IF Retried THEN <<"params", "converted_params">>
                          ELSE <<"params">>
        /\ ((Retried /\ invRun.second.kind # "ok")
                \/ (invRun.first.kind = "validation" /\ ~invRun.first.report)) =>
              invRun.result = "raised" /\ invRun.exc = LastOutcome

\* C30, amended: as stated, except that the failure of the retry (like that
\* of the first call) is raised to the caller only when the action is not a
\* delete or the text of the exception holds no not-found marker; a delete
\* whose last call raised a not-found exception returns None.
C30_RetryOnce ==
    invRun.called =>
        /\ Len(invRun.calls) <= 2
        /\ invRun.calls = IF Retried THEN <<"params", "converted_params">>
                          ELSE <<"params">>
        /\ LastOutcome.kind = "ok" => invRun.result = "result"
        /\ LastOutcome.kind # "ok" =>
              /\ invRun.exc = LastOutcome
              /\ invRun.result =
                    IF invRun.action_name = ACTION_DELETE /\ LastOutcome.marker
                    THEN "None" ELSE "raised"

\* invoke_function has retried after a validation failure with a report,
\* and the retry failed with an exception that was raised to the caller.
C30_Witness ==
    /\ invRun.called
    /\ Retried
    /\ invRun.calls = <<"params", "converted_params">>
    /\ invRun.second.kind = "error"
    /\ invRun.result = "raised"

\* C31: after merge_properties, every property key of the new resource has
\* the new value in the old resource and the property keys only the old
\* resource has are unchanged; every other key the old resource had keeps
\* its value, and a key it lacked is copied from the new resource; the old
\* stack's template_original entry is the new one.
C31_MergeProperties ==
    mergeRun.called =>
        /\ \A k \in PropertyKeys :
              mergeRun.merged.props[k] =
                  IF mergeRun.new.props[k] # Absent THEN mergeRun.new.props[k]
                  ELSE mergeRun.old.props[k]
        /\ \A k \in ResourceKeys :
              mergeRun.merged.keys[k] =
                  IF mergeRun.old.keys[k] # Absent THEN mergeRun.old.keys[k]
                  ELSE mergeRun.new.keys[k]
        /\ mergeRun.template_original = mergeRun.new_original

\* merge_properties has merged a new resource into an old one that had a
\* different Type, a property the new one overwrites and a property only
\* the old one has: the Type stayed, the first property changed, the second
\* stayed, and template_original was replaced.
C31_Witness ==
    /\ mergeRun.called
    /\ mergeRun.old.keys["Type"] = Str("a") /\ mergeRun.new.keys["Type"] = Str("b")
    /\ mergeRun.merged.keys["Type"] = Str("a")
    /\ mergeRun.old.keys["Condition"] = Absent /\ mergeRun.merged.keys["Condition"] = Str("b")
    /\ mergeRun.old.props["p"] = Str("a") /\ mergeRun.merged.props["p"] = Str("b")
    /\ mergeRun.new.props["q"] = Absent /\ mergeRun.merged.props["q"] = Str("a")
    /\ mergeRun.old_original = Str("a") /\ mergeRun.template_original = Str("b")

\* C32: apply_change_set runs as UPDATE exactly when the status of the stack
\* is CREATE_COMPLETE or UPDATE_COMPLETE when it is called, and as CREATE for
\* every other status; the status it sets is <ACTION>_IN_PROGRESS of that
\* action (<ACTION>_FAILED when it raises at once), the action and the status
\* stay those of that action while the run goes on, and the run ends in
\* <ACTION>_COMPLETE or <ACTION>_FAILED of that action.
C32_ChangeSetAction ==
    [][/\ CallsApplyChangeSet =>
             /\ action' = IF status \in {"CREATE_COMPLETE", "UPDATE_COMPLETE"}
                          THEN "UPDATE" ELSE "CREATE"
             /\ status' = IF raised' = "NoStackUpdates" THEN Failed(action')
                          ELSE InProgress(action')
       /\ (entry = "apply_change_set" /\ entry' = entry /\ runs' = runs) =>
             /\ action' = action
             /\ status' \in {InProgress(action), Complete(action), Failed(action)}
             /\ pc' = "idle" => status' \in {Complete(action), Failed(action)}]_vars

\* A change set was executed on a stack in CREATE_COMPLETE: it ran as an
\* UPDATE and ended in UPDATE_COMPLETE.
C32_Witness ==
    /\ pc = "idle"
    /\ entry = "apply_change_set"
    /\ raised = "none"
    /\ runs = 2
    /\ action = "UPDATE"
    /\ status = "UPDATE_COMPLETE"
    /\ changesDone # <<>>

\* The Remove of r was applied in the current run.
RemoveApplied(r) ==
    \E k \in 1..Len(changesDone) :
        changesDone[k].Action = "Remove" /\ changesDone[k].LogicalResourceId = r

\* C33: a logical id leaves the template's resources only at the end of a
\* loop in which its Remove was applied without raising; the resource of a
\* Remove that was dropped and the resource of an Add or Modify never leave
\* it, and a resource whose Remove was applied is not created in that run.
C33_RemovedOnlyAfterRemove ==
    [][\A r \in Ids :
          /\ (r \in template /\ r \notin template') =>
                /\ PassDone
                /\ RemoveApplied(r)
                /\ \A k \in DoneFor(r) : changesDone[k].Action = "Remove"
                /\ MakesCall(r) /\ <<r, ACTION_DELETE>> \in calls
          /\ RemoveApplied(r)' =>
                /\ <<r, ACTION_CREATE>> \notin calls'
                /\ \A k \in DoneFor(r)' : changesDone'[k].Action = "Remove"
          /\ (InLoop /\ changes[j].LogicalResourceId = r /\ changes' # changes
                 /\ changesDone' = changesDone) =>
                ~RemoveApplied(r)']_vars

\* An update has ended in UPDATE_COMPLETE after it applied the Remove of one
\* resource and a change of another: the first has left the template, the
\* second is still in it.
C33_Witness ==
    /\ pc = "idle"
    /\ status = "UPDATE_COMPLETE"
    /\ \E r \in Ids, s \in Ids :
          /\ RemoveApplied(r) /\ r \notin template /\ <<r, ACTION_DELETE>> \in calls
          /\ DoneFor(s) # {} /\ ~RemoveApplied(s) /\ s \in template

\* C34: Route53RecordSetProvider.create with a model without HostedZoneId
\* takes the zone from HostedZoneName only when the lookup answers exactly
\* one hosted zone; with no zone or several, or with neither HostedZoneId nor
\* HostedZoneName, it raises before any change_resource_record_sets call;
\* when it succeeds it has sent exactly one UPSERT, to the zone given or
\* resolved, and Id is the Name of the record.
C34_HostedZoneResolution ==
    r53Run.called =>
        LET model == r53Run.model
            out == r53Run.out
            named == ~Falsy(model.HostedZoneName)
        IN  /\ out.lookups = IF Falsy(model.HostedZoneId) /\ named THEN 1 ELSE 0
            /\ (Falsy(model.HostedZoneId) /\ (~named \/ Len(r53Run.zones) # 1)) =>
                  out.result = "raised" /\ out.changes = <<>>
            /\ Len(out.changes) <= 1
            /\ out.result = "SUCCESS" =>
                  /\ Len(out.changes) = 1
                  /\ out.changes[1].Action = "UPSERT"
                  /\ out.changes[1].HostedZoneId =
                        IF Falsy(model.HostedZoneId) THEN r53Run.zones[1]
                        ELSE model.HostedZoneId
                  /\ out.HostedZoneId = out.changes[1].HostedZoneId
                  /\ out.Id = model.Name

\* create has succeeded for a model with HostedZoneName and no HostedZoneId:
\* the lookup answered one zone and the UPSERT went to it.
C34_Witness ==
    /\ r53Run.called
    /\ r53Run.model.HostedZoneId = Absent
    /\ r53Run.model.HostedZoneName = Str("zone.")
    /\ r53Run.zones = <<Str("Z2")>>
    /\ r53Run.out.result = "SUCCESS"
    /\ r53Run.out.changes = <<[Action |-> "UPSERT", HostedZoneId |-> Str("Z2"),
                               Name |-> r53Run.model.Name]>>
    /\ r53Run.out.Id = r53Run.model.Name

\* C35: whenever do_apply_changes_in_loop has returned without raising, and
\* the worker has set the stack to <ACTION>_COMPLETE, the pending list is
\* empty: every change of the plan was applied or dropped.
C35_CompleteMeansNoPending ==
    (LoopRunEnded /\ loopResult = "ok" /\ status = Complete(action)) => changes = <<>>

\* The list seq without its k-th element, the others in their order.
Without(seq, k) == [m \in 1..(Len(seq) - 1) |-> IF m < k THEN seq[m] ELSE seq[m + 1]]

\* The elements of a sequence.
Elements(seq) == {seq[k] : k \in 1..Len(seq)}

\* C36: throughout the deployment loop the pending list is an order-preserving
\* subsequence of the plan: it is the plan when the loop starts, and every
\* step of the loop leaves it as it is or deletes its current element; the
\* changes applied so far are not pending, and no change is applied more than
\* once in a run: a step that applies a change moves the current change from
\* the pending list to changes_done, which held it not.
C36_PendingIsSubsequence ==
    [][/\ (CallsApplyChanges /\ pc' = "loop") =>
             /\ changes' = construct_changes(template, newTemplate',
                                             entry' = "deploy_stack", FALSE, {})
             /\ changesDone' = <<>>
       /\ (pc = "loop" /\ runs' = runs) =>
             /\ changes' = changes \/ (InLoop /\ changes' = Without(changes, j))
             /\ changesDone' = changesDone
                   \/ /\ InLoop
                      /\ changesDone' = Append(changesDone, changes[j])
                      /\ changes' = Without(changes, j)
                      /\ changes[j] \notin Elements(changesDone)
       /\ Elements(changes') \cap Elements(changesDone') = {}
       /\ Cardinality(Elements(changesDone')) = Len(changesDone')
       /\ Cardinality(Elements(changes')) = Len(changes')]_vars

\* The loop is in a later pass, at the second of the changes still pending,
\* with a change applied in an earlier pass.
C36_Witness ==
    /\ InLoop
    /\ iter >= 1
    /\ j >= 2
    /\ Len(changesDone) >= 1

\* The first pass of a deploy_stack, whose plan holds one Add per resource of
\* the template, has ended; it applied no change and dropped at least one,
\* so that changes left the pending list, and it deferred the others.
FirstPassOnlyDropped ==
    /\ PassDone
    /\ entry = "deploy_stack"
    /\ iter = 0
    /\ changesDone = <<>>
    /\ changes # <<>>
    /\ Len(changes) < Cardinality(template)

\* C37: the loop raises its no-progress error only at the end of a pass in
\* which no change left the pending list; a pass that dropped a change and
\* deferred the others does not end in that error.
C37_DropCountsAsProgress ==
    [][FirstPassOnlyDropped => ~(pc' = "raising" /\ loopResult' = "no_progress")]_vars

\* C38: when the run fails inside the loop the steps after the loop are
\* skipped: the step that raises and the except clause that follows leave
\* the template's resources and the resolved outputs as they are, so the
\* resources whose Remove was applied before the failure are still in the
\* template when the run has ended in <ACTION>_FAILED.
C38_FailureSkipsPostLoop ==
    [][/\ (pc = "loop" /\ pc' = "raising") =>
             /\ loopResult' \in {"error", "no_progress"}
             /\ UNCHANGED <<template, resolvedOutputs>>
       /\ pc = "raising" =>
             /\ pc' = "idle"
             /\ status' = Failed(action)
             /\ UNCHANGED <<template, resolvedOutputs>>
       /\ LoopFailed' => \A r \in Ids : RemoveApplied(r)' => r \in template']_vars

\* A run has failed after it applied the Remove of a resource: the delete
\* call was made, the resource is not in the service and still in the
\* template.
C38_Witness ==
    /\ LoopFailed
    /\ status = Failed(action)
    /\ \E r \in template :
          /\ RemoveApplied(r)
          /\ <<r, ACTION_DELETE>> \in calls
          /\ deployed[r] = NoId

\* A stack of registered types in which one resource names another, by a Ref
\* or by DependsOn, and nothing else departs from the plain scenario: the
\* templates submitted later have the whole deviation budget.
DependentInit ==
    \E s \in ResourceIds, d \in ResourceIds, kind \in {"ref", "dep"} :
        /\ s # d
        /\ rtype = [r \in ResourceIds |-> "Known"]
        /\ updatable = [r \in ResourceIds |-> TRUE]
        /\ refs = [r \in ResourceIds |-> IF kind = "ref" /\ r = s THEN {d} ELSE {}]
        /\ dependsOn = [r \in ResourceIds |-> IF kind = "dep" /\ r = s THEN {d} ELSE {}]
        /\ outcome = [r \in ResourceIds |-> "ok"]
        /\ callable = [r \in ResourceIds |-> FALSE]
        /\ template = ResourceIds
        /\ cond = [r \in ResourceIds |-> TRUE]
        /\ devUsed = 0

\* A stack as constructed, in any scenario or with one such dependency.
ConditionalInit ==
    (ScenarioInit \/ DependentInit) /\ NewStack /\ NoExports /\ NoImports

\* The deployer on the stacks of ConditionalInit.
ConditionalSpec == ConditionalInit /\ [][Next]_vars

\* The dependencies of s of a deployable type whose Condition is false.
FalseDependencies(s) ==
    {d \in get_resource_dependencies(s) :
        is_deployable_resource(d) /\ ~evaluate_resource_condition(d)}

\* C39 as stated: no change of a resource that depends, through Ref,
\* Fn::GetAtt or DependsOn, on a resource of a deployable type whose
\* Condition is false is ever applied.
C39_FalseDependencyBlocks_AsStated ==
    [][\A s \in Ids : AppliedNow(s) => FalseDependencies(s) = {}]_vars

\* C39, amended: an Add or a Modify of a resource that depends on a resource
\* of a deployable type whose Condition is false is applied only when that
\* dependency is deployed all the same (an earlier run deployed it); while
\* it is not, the change is deferred, so no run ends in <ACTION>_COMPLETE
\* with such a change applied over a dependency that is not deployed.  A
\* Remove is applied without a look at the dependencies.
C39_FalseDependencyBlocks ==
    [][/\ \A s \in Ids :
             (AppliedNow(s) /\ changes[j].Action \in {"Add", "Modify"}) =>
                 \A d \in FalseDependencies(s) : is_deployed(d)
       /\ \A s \in Ids :
             (/\ InLoop
              /\ changes[j].LogicalResourceId = s
              /\ changes[j].Action \in {"Add", "Modify"}
              /\ prepare_should_deploy_change(changes[j]) = "true"
              /\ \E d \in FalseDependencies(s) : ~is_deployed(d)) =>
                 /\ changes' = changes
                 /\ changesDone' = changesDone
                 /\ j' = j + 1
       /\ (pc' = "idle" /\ loopResult' = "ok" /\ changes' = <<>>) =>
             \A k \in 1..Len(changesDone') :
                 changesDone'[k].Action \in {"Add", "Modify"} =>
                     \A d \in template' \ {changesDone'[k].LogicalResourceId} :
                         (/\ d \in Named(changesDone'[k].LogicalResourceId)
                          /\ is_deployable_resource(d)
                          /\ ~cond'[d]) => deployed'[d] # NoId]_vars

\* A deployment has failed for lack of progress with the Add of a resource
\* still pending whose DependsOn names a deployable resource with a false
\* Condition, which was dropped and is not deployed.
C39_Witness ==
    /\ LoopFailed
    /\ loopResult = "no_progress"
    /\ \E k \in 1..Len(changes) :
          /\ changes[k].Action = "Add"
          /\ evaluate_resource_condition(changes[k].LogicalResourceId)
          /\ \E d \in FalseDependencies(changes[k].LogicalResourceId) :
                /\ d \in dependsOn[changes[k].LogicalResourceId]
                /\ ~is_deployed(d)
                /\ resStatus[d] = "CREATE_COMPLETE"

\* C40: when apply_changes raises NoStackUpdates, the stack is as it was
\* before the call: no resource status and no resource property has changed,
\* and the stack holds the resources it held.
C40_NoStackUpdatesLeavesStack ==
    [][(CallsApplyChanges /\ raised' = "NoStackUpdates")
          => (resStatus' = resStatus /\ props' = props /\ template' = template)]_vars

====
